---- MODULE Spec2Model ----
(***************************************************************************)
(* Settlement reconciliation of the NFT marketplace backend.               *)
(*                                                                         *)
(* The repository holds several revisions of the same express server.      *)
(*   src/server.js         webhook with sell-offer branch, USED update     *)
(*                         issued before BEGIN          (specification Spec) *)
(*   src/unnamed/part_003  webhook that fetches the transaction from the   *)
(*                         ledger, USED update inside the transaction      *)
(*                                                   (SpecPart003)         *)
(*   src/unnamed/part_000  purchase-only webhook, currency from the        *)
(*                         delivered amount, parsePrice; add-nft that      *)
(*                         inserts one row per copy; catalog that counts   *)
(*                         the unsold rows              (SpecPart000)      *)
(*   src/unnamed/part_004  no webhook; pay-xrp / pay-rlusd decrement the   *)
(*                         inventory themselves; add-nft; catalog that     *)
(*                         marks sold-out rows          (SpecPart004)      *)
(*                                                                         *)
(* The relational store is modelled by its committed tables plus, for each *)
(* webhook invocation, the uncommitted writes of its open transaction.     *)
(* Every await of a handler is a separate step, so handlers interleave     *)
(* exactly where the event loop lets them; a rejected await takes the      *)
(* handler to its catch block, whose ROLLBACK is a step of its own.  The   *)
(* release of the store is fixed in the initial state: releases read some  *)
(* numeric texts differently.                                              *)
(***************************************************************************)
EXTENDS Integers, Sequences, FiniteSets, TLC

(***************************************************************************)
(* Bounds                                                                  *)
(***************************************************************************)
\* number of webhook deliveries in one behaviour
MaxDeliveries == 2
\* number of requests to the catalog, listing-state, pay and redeem routes
MaxReqs == 2
\* the clock runs up to MaxClock times the cache's time to live
MaxClock == 2
\* largest quantity a listing is created with
MaxQty == 2
\* number of store statements that may fail in one behaviour
MaxFaults == 1
\* connections of the pg pool (pool.connect() waits when none is free)
PoolSize == 2
\* calls of pay-xrp / pay-rlusd in one behaviour of part_004
MaxPayCalls == 3
\* requests to list-on-marketplace / create-sell-offer in one behaviour
MaxCalls == 2
\* deliveries and requests part_000 receives in one behaviour
MaxInvocations == 2

(***************************************************************************)
(* Values                                                                  *)
(***************************************************************************)
\* SQL NULL / JS undefined of an identifier-like field (txid, currency, ...)
NULL == "NULL"
\* SQL NULL of a price text; a price text is a sequence of characters and
\* the empty text is <<>>
NullTxt == <<"NULL">>

Digits == {"0", "1", "2", "3", "4", "5", "6", "7", "8", "9"}

DigitVal(c) ==
  CASE c = "0" -> 0 [] c = "1" -> 1 [] c = "2" -> 2 [] c = "3" -> 3
    [] c = "4" -> 4 [] c = "5" -> 5 [] c = "6" -> 6 [] c = "7" -> 7
    [] c = "8" -> 8 [] c = "9" -> 9

\* value of a sequence of decimal digits (0 for the empty sequence)
RECURSIVE DigitsVal(_)
DigitsVal(s) ==
  IF s = <<>> THEN 0
  ELSE 10 * DigitsVal(SubSeq(s, 1, Len(s) - 1)) + DigitVal(s[Len(s)])

RECURSIVE Pow10(_)
Pow10(n) == IF n = 0 THEN 1 ELSE 10 * Pow10(n - 1)

\* numbers are decimal fractions mant / 10^scale, NaN, or the SQL NULL
NaN == [kind |-> "NaN", mant |-> 0, scale |-> 0]
NullNum == [kind |-> "null", mant |-> 0, scale |-> 0]
ErrNum == [kind |-> "error", mant |-> 0, scale |-> 0]

RECURSIVE Normal(_, _)
Normal(m, sc) ==
  IF sc > 0 /\ m % 10 = 0 THEN Normal(m \div 10, sc - 1)
  ELSE [kind |-> "num", mant |-> m, scale |-> sc]

Num(n) == [kind |-> "num", mant |-> n, scale |-> 0]

IsPositive(v) == v.kind = "num" /\ v.mant > 0

\* position of the first "." of s, 0 when there is none
RECURSIVE DotPos(_, _)
DotPos(s, i) ==
  IF i > Len(s) THEN 0 ELSE IF s[i] = "." THEN i ELSE DotPos(s, i + 1)

AllDigits(s) == \A k \in 1..Len(s) : s[k] \in Digits

\* an unsigned decimal literal: digits, digits.digits, digits. or .digits
UnsignedDecimal(s) ==
  LET d == DotPos(s, 1) IN
  IF d = 0
  THEN IF s # <<>> /\ AllDigits(s) THEN Num(DigitsVal(s)) ELSE NaN
  ELSE LET ip == SubSeq(s, 1, d - 1)
           fp == SubSeq(s, d + 1, Len(s))
       IN IF AllDigits(ip) /\ AllDigits(fp) /\ Len(ip) + Len(fp) > 0
          THEN Normal(DigitsVal(ip) * Pow10(Len(fp)) + DigitsVal(fp), Len(fp))
          ELSE NaN

\* JS Number(text) on a text made of digits and dots: "" is 0
JsNumber(s) == IF s = <<>> THEN Num(0) ELSE UnsignedDecimal(s)

\* raw.replace(/[^0-9.]/g, "")
Cleaned(raw) == SelectSeq(raw, LAMBDA c : c \in Digits \cup {"."})

\* parsePrice of server.js / part_000 / part_003 on a TEXT column value
parsePrice(raw) ==
  IF raw = NullTxt \/ raw = <<>> THEN NaN
  ELSE JsNumber(Cleaned(raw))

\* the vertical tab (0x0B), which no string literal can hold: in a text it
\* is written as this element
VTab == "\\v"

\* white space the store's numeric input skips on both sides: the
\* characters of isspace()
Blanks == {" ", "\t", "\n", "\r", "\f", VTab}

RECURSIVE TrimLeft(_)
TrimLeft(s) ==
  IF s # <<>> /\ s[1] \in Blanks THEN TrimLeft(Tail(s)) ELSE s

RECURSIVE TrimRight(_)
TrimRight(s) ==
  IF s # <<>> /\ s[Len(s)] \in Blanks
  THEN TrimRight(SubSeq(s, 1, Len(s) - 1)) ELSE s

\* the text is NaN in any letter case
IsNaNText(s) ==
  /\ Len(s) = 3
  /\ s[1] \in {"n", "N"} /\ s[2] \in {"a", "A"} /\ s[3] \in {"n", "N"}

\* position of the exponent mark of s, 0 when there is none
RECURSIVE ExpPos(_, _)
ExpPos(s, i) ==
  IF i > Len(s) THEN 0
  ELSE IF s[i] \in {"e", "E"} THEN i ELSE ExpPos(s, i + 1)

\* releases of the store that read a numeric text differently: up to
\* release 15 the exponent is read by strtol, which skips white space; from
\* release 16 on an integer may be written in base 16, 8 or 2 and digits
\* may be grouped by "_"
StoreReleases == {"pg15", "pg16"}
LatestRelease == "pg16"

\* every "_" of s stands between two characters of ds
Grouped(s, ds) ==
  \A k \in 1..Len(s) :
    s[k] = "_" => /\ k > 1 /\ s[k - 1] \in ds
                  /\ k < Len(s) /\ s[k + 1] \in ds

Ungrouped(s) == SelectSeq(s, LAMBDA c : c # "_")

\* the digits of a text as release rel reads them: "_" is a separator from
\* release 16 on
DigitText(s, rel) ==
  IF rel = "pg16" /\ Grouped(s, Digits) THEN Ungrouped(s) ELSE s

\* s without its leading zeros
Significant(s) ==
  LET nz == {k \in 1..Len(s) : s[k] # "0"} IN
  IF nz = {} THEN <<>>
  ELSE SubSeq(s, CHOOSE k \in nz : \A j \in nz : k <= j, Len(s))

\* INT_MAX and the largest exponent the store reads, INT_MAX / 2
IntMax == 2 * (2^30 - 1) + 1
ExponentLimit == IntMax \div 2

\* the digits d are an exponent the store refuses as out of range: up to
\* release 15 one of at least INT_MAX / 2, from release 16 on one above
\* INT_MAX / 2, of either sign
ExponentTooLarge(d, rel) ==
  LET g == Significant(d) IN
  \/ Len(g) > 10
  \/ Len(g) = 10 /\ DigitVal(g[1]) >= 2
  \/ Len(g) = 10 /\ DigitsVal(g) > ExponentLimit
  \/ rel = "pg15" /\ Len(g) = 10 /\ DigitsVal(g) = ExponentLimit

\* an exponent: an optional sign and at least one digit, within range;
\* strtol skips white space before the sign
Exponent(s, rel) ==
  LET t == IF rel = "pg15" THEN TrimLeft(s) ELSE s
      d == DigitText(IF t # <<>> /\ t[1] \in {"+", "-"} THEN Tail(t) ELSE t,
                     rel)
  IN IF d = <<>> \/ ~AllDigits(d) THEN [ok |-> FALSE, val |-> 0]
     ELSE IF ExponentTooLarge(d, rel) THEN [ok |-> FALSE, val |-> 0]
     ELSE [ok |-> TRUE,
           val |-> IF t[1] = "-" THEN 0 - DigitsVal(Significant(d))
                   ELSE DigitsVal(Significant(d))]

\* the digits of base 16, 8 and 2 and their values
HexLetters ==
  [c \in {"a", "b", "c", "d", "e", "f", "A", "B", "C", "D", "E", "F"} |->
     CASE c \in {"a", "A"} -> 10 [] c \in {"b", "B"} -> 11
       [] c \in {"c", "C"} -> 12 [] c \in {"d", "D"} -> 13
       [] c \in {"e", "E"} -> 14 [] c \in {"f", "F"} -> 15]

BaseOf(c) ==
  CASE c \in {"x", "X"} -> 16
    [] c \in {"o", "O"} -> 8
    [] c \in {"b", "B"} -> 2
    [] OTHER -> 0

BaseDigitVal(c) == IF c \in Digits THEN DigitVal(c) ELSE HexLetters[c]

BaseDigits(base) ==
  {c \in Digits \cup DOMAIN HexLetters : BaseDigitVal(c) < base}

RECURSIVE BaseVal(_, _)
BaseVal(s, base) ==
  IF s = <<>> THEN 0
  ELSE base * BaseVal(SubSeq(s, 1, Len(s) - 1), base)
         + BaseDigitVal(s[Len(s)])

\* a non-decimal integer after its prefix: digits of the base, each "_"
\* followed by a digit (one may follow the prefix), at least one digit
NonDecimal(s, base) ==
  LET ds == BaseDigits(base)
      d == Ungrouped(s)
  IN IF /\ d # <<>>
        /\ \A k \in 1..Len(s) :
             \/ s[k] \in ds
             \/ s[k] = "_" /\ k < Len(s) /\ s[k + 1] \in ds
     THEN Num(BaseVal(d, base))
     ELSE NaN

\* the text after the sign has the prefix of a non-decimal integer
HasBasePrefix(s) == Len(s) >= 2 /\ s[1] = "0" /\ BaseOf(s[2]) # 0

\* decimal digits of a natural number
RECURSIVE NumDigits(_)
NumDigits(m) == IF m < 10 THEN 1 ELSE 1 + NumDigits(m \div 10)

\* NUMERIC(20,8): precision, scale, and the digits left before the point
NumericPrecision == 20
NumericScale == 8
NumericIntDigits == NumericPrecision - NumericScale

\* mant / 10^sc as a NUMERIC(20,8): rounded half away from zero to 8
\* decimals (a mantissa of at most ten digits behind eighteen or more
\* decimal places rounds to 0); a value with more than 12 integer digits
\* overflows
NumericTypmod(neg, m, sc) ==
  LET r == IF sc - NumericScale >= 10 THEN Num(0)
           ELSE IF sc > NumericScale
           THEN LET p == Pow10(sc - NumericScale) IN
                Normal((m \div p) + (IF 2 * (m % p) >= p THEN 1 ELSE 0),
                       NumericScale)
           ELSE IF sc < 0 THEN IF m = 0 THEN Num(0)
                               ELSE IF NumDigits(m) - sc > NumericIntDigits
                               THEN ErrNum
                               ELSE Num(m * Pow10(0 - sc))
           ELSE Normal(m, sc)
  IN IF r.kind # "num" THEN r
     ELSE IF r.mant # 0 /\ NumDigits(r.mant) - r.scale > NumericIntDigits
     THEN ErrNum
     ELSE IF neg THEN [r EXCEPT !.mant = 0 - r.mant] ELSE r

\* the decimals written in the literal s
FractionDigits(s) ==
  LET d == DotPos(s, 1) IN IF d = 0 THEN 0 ELSE Len(s) - d

\* the value the input function has read does not fit the store's format:
\* its display scale, the decimals written less the exponent, is above
\* NUMERIC_DSCALE_MASK, 2^14 - 1 (a weight beyond int16 belongs to a value
\* of more than 12 integer digits, which the typmod refuses as well)
OverflowsFormat(frac, exp) == frac - exp > 2^14 - 1

\* the conversion of a text parameter to NUMERIC(20,8) by release rel of
\* the store (numeric_in with no typmod, then the coercion to the column's
\* typmod): NULL stays NULL; white space on both sides is skipped; NaN is
\* a value; otherwise an optional sign and either a non-decimal integer
\* (release 16 on) or a decimal literal with an optional exponent give the
\* value, which must fit the store's format and is then rounded to 8
\* decimals; anything else, Infinity included, raises
NumericInAt(raw, rel) ==
  IF raw = NullTxt THEN NullNum
  ELSE LET s == TrimRight(TrimLeft(raw)) IN
       IF IsNaNText(s) THEN NaN
       ELSE LET neg == s # <<>> /\ s[1] = "-"
                body == IF s # <<>> /\ s[1] \in {"+", "-"} THEN Tail(s) ELSE s
            IN IF rel = "pg16" /\ HasBasePrefix(body)
               THEN LET v == NonDecimal(SubSeq(body, 3, Len(body)),
                                        BaseOf(body[2]))
                    IN IF v.kind # "num" THEN ErrNum
                       ELSE NumericTypmod(neg, v.mant, v.scale)
               ELSE LET e == ExpPos(body, 1)
                        m == IF e = 0 THEN body ELSE SubSeq(body, 1, e - 1)
                        k == IF e = 0 THEN [ok |-> TRUE, val |-> 0]
                             ELSE Exponent(SubSeq(body, e + 1, Len(body)),
                                           rel)
                        v == UnsignedDecimal(DigitText(m, rel))
                    IN IF v.kind # "num" \/ ~k.ok THEN ErrNum
                       ELSE IF OverflowsFormat(
                                 FractionDigits(DigitText(m, rel)), k.val)
                       THEN ErrNum
                       ELSE NumericTypmod(neg, v.mant, v.scale - k.val)

\* a JS number sent as a parameter for a NUMERIC(20,8) column: the driver
\* sends its text, the store rounds it to 8 decimals
NumericParam(v) ==
  IF v.kind # "num" THEN v
  ELSE NumericTypmod(v.mant < 0, IF v.mant < 0 THEN 0 - v.mant ELSE v.mant,
                     v.scale)

(***************************************************************************)
(* Tables and inputs                                                       *)
(***************************************************************************)
\* ids of the listings that exist; GhostId names no row
NftIds == {1, 2}
GhostId == Cardinality(NftIds) + 1
\* blob.nft_id absent (falsy in JS)
NoId == 0

\* price texts a creator may have stored for the varied price column
PriceTexts ==
  {NullTxt, <<"a", "b", "c">>, <<"0">>, <<"-", "5">>, <<"2", "0">>,
   <<" ", "+", "2", "e", "1">>, <<"1", "_", "0">>}

Buyer == "rBuyer"

\* the body Xaman pushes to the webhook, reduced to the fields a handler
\* reads.  blob: custom_meta.blob is present; submission_id, minted: the
\* blob's submission id and whether the body lists created NFTokens
Payload(sg, dr, tt, tx, uu, id, acct, cur, soi, da, mid, tok, oix) ==
  [signed |-> sg, dispatched |-> dr, TransactionType |-> tt, txid |-> tx,
   payload_uuidv4 |-> uu, nft_id |-> id, account |-> acct, currency |-> cur,
   sell_offer_index |-> soi, delivered_amount |-> da,
   marketplace_nft_id |-> mid, NFTokenID |-> tok, offerIndex |-> oix,
   blob |-> TRUE, submission_id |-> NoId, minted |-> FALSE]

\* a signed, dispatched NFTokenAcceptOffer confirmation
Purchase(id, tx, uu, cur, soi, da) ==
  Payload(TRUE, TRUE, "NFTokenAcceptOffer", tx, uu, id, Buyer, cur, soi, da,
          NoId, NULL, NULL)

\* a signed, dispatched NFTokenCreateOffer confirmation
OfferCreated(mid, tok, oix, cur) ==
  Payload(TRUE, TRUE, "NFTokenCreateOffer", "t3", "u3", NoId, "rCreator", cur,
          NULL, "drops", mid, tok, oix)

NoPayload ==
  Payload(FALSE, FALSE, "none", NULL, NULL, NoId, NULL, NULL, NULL, "drops",
          NoId, NULL, NULL)

\* a row of orders not (yet) written
NoRow ==
  [marketplace_nft_id |-> NoId, buyer_wallet |-> NULL, price |-> NullNum,
   currency |-> NULL, status |-> "none", xumm_payload_uuid |-> NULL,
   tx_hash |-> NULL]

\* the offer row the listing flow leaves for listing 1
OfferX1 ==
  [marketplace_nft_id |-> 1, nftoken_id |-> "N1", sell_offer_index |-> "X1",
   currency |-> "XRP", status |-> "OPEN"]

Handlers == 1..MaxDeliveries

\* requests to the offer-creating routes
Callers == 1..MaxCalls

VARIABLES
  marketplace_nfts,         \* committed rows of marketplace_nfts, by id
  orders,                   \* committed rows of orders, in insertion order
  marketplace_sell_offers,  \* committed rows of marketplace_sell_offers
  h,                        \* webhook invocations: position and open transaction
  rowLock,                  \* FOR UPDATE lock of each listing row: holder or 0
  faults,                   \* store statements that have failed so far
  qty0,                     \* history: the quantity each listing was created with
  release,                  \* the release of the store the server runs against
  payLog,                   \* pay-xrp / pay-rlusd calls answered (part_004)
  calls,                    \* list-on-marketplace / create-sell-offer requests
  gateway,                  \* payloads submitted to the signing gateway
  marketAllCache,           \* the in-memory snapshot of GET /api/market/all
  clock,                    \* Date.now(), in milliseconds
  reqs                      \* requests to the catalog, listing-state, pay
                            \* and redeem routes

vars ==
  <<marketplace_nfts, orders, marketplace_sell_offers, h, rowLock, faults,
    qty0, release, payLog, calls, gateway,
                 marketAllCache, clock, reqs>>

\* the conversions of the price texts the listings hold, by release
NumericOfText ==
  [t \in PriceTexts \cup {<<"1", "0">>} |->
     [rel \in StoreReleases |-> NumericInAt(t, rel)]]

\* the store's conversion of a text parameter to NUMERIC(20,8)
NumericIn(raw) ==
  IF raw \in DOMAIN NumericOfText THEN NumericOfText[raw][release]
  ELSE NumericInAt(raw, release)

\* the price texts of the rows of tbl
PriceTextsOf(tbl) ==
  UNION {{tbl[id].price_xrp, tbl[id].price_rlusd} : id \in DOMAIN tbl}

\* the releases to tell apart for a store that holds the price texts ts:
\* the latest one, and each release that reads one of the texts differently
ReleasesFor(ts) ==
  {rel \in StoreReleases :
     \/ rel = LatestRelease
     \/ \E t \in ts : NumericInAt(t, rel) # NumericInAt(t, LatestRelease)}

\* pc: the await the invocation is at; p: the body it received; res: the
\* HTTP status it answered (0 before); outcome: the return it took;
\* began: BEGIN was issued; inserted / decremented: the order row and the
\* quantity update written by its transaction (kept once committed);
\* used: the offer index whose status its USED update changed;
\* saved: it inserted a sell-offer row; appended: it added minted tokens
\* to a submission; offerLock: the offer row its open transaction updated;
\* err: what its try block threw ("none" before)
IdleHandler ==
  [pc |-> "idle", p |-> NoPayload, res |-> 0, outcome |-> "none",
   began |-> FALSE, inserted |-> NoRow, decremented |-> FALSE, used |-> NULL,
   saved |-> FALSE, appended |-> FALSE, offerLock |-> NULL, err |-> "none"]

\* op: the route; id, currency: the request body; pc: the await the
\* request is at; res: the HTTP status answered (0 before); outcome: the
\* return it took; wrote: it changed a row of the store; nft: the row its
\* SELECT returned
NoListing == [nftoken_id |-> NullTxt, nftoken_ids |-> <<>>]

IdleCall ==
  [op |-> "none", id |-> NoId, currency |-> NULL, pc |-> "idle", res |-> 0,
   outcome |-> "none", wrote |-> FALSE, nft |-> NoListing]

\* time to live of the catalog snapshot, in milliseconds
MARKET_ALL_TTL_MS == 10000

\* let marketAllCache = { ts: 0, data: null }.  has: data is not null;
\* by: the request that stored the snapshot (history)
EmptyCache == [ts |-> 0, has |-> FALSE, data |-> <<>>, by |-> 0]

Requesters == 1..MaxReqs

\* op: the route; id, delist, wallet, email, quantity: the body (id is the
\* listing, submission or order the route is about); pc: the await the
\* request is at; now: Date.now() as the handler read it; hit: it was
\* answered from the snapshot; from: the request that had stored that
\* snapshot; rows: the result of its store query; res, payload: the HTTP
\* status and the rows it answered; outcome: the return it took
IdleReq ==
  [op |-> "none", id |-> NoId, delist |-> FALSE, wallet |-> NULL,
   email |-> NULL, quantity |-> 0, pc |-> "idle", now |-> 0, hit |-> FALSE, from |-> 0,
   rows |-> <<>>, res |-> 0, payload |-> <<>>, outcome |-> "none"]

\* the server has started: nothing cached, no request received
InitCatalog ==
  /\ marketAllCache = EmptyCache
  /\ clock = MARKET_ALL_TTL_MS
  /\ reqs = [c \in Requesters |-> IdleReq]

\* connections checked out of the pool by webhook invocations
InUse == Cardinality({i \in Handlers : h[i].pc \notin {"idle", "done"}})

PriceText(nft, cur) == IF cur = "RLUSD" THEN nft.price_rlusd ELSE nft.price_xrp

\* the id the next inserted listing gets
NextListingId == Cardinality(DOMAIN marketplace_nfts) + 1

NftRow(q, px, pr) ==
  [quantity |-> q, sold_count |-> 0, price_xrp |-> px, price_rlusd |-> pr]

\* the store after listings were published and before any confirmation:
\* either listing 1 varies in quantity or listing 2 in its secondary price.
\* Row(id, q, px, pr) is the row of a revision's table
InitListings(Row(_, _, _, _)) ==
  /\ \E q \in 0..MaxQty, pr \in PriceTexts :
       /\ q = 1 \/ pr = <<"2", "0">>
       /\ marketplace_nfts =
            (1 :> Row(1, q, <<"1", "0">>, <<"2", "0">>) @@
             2 :> Row(2, 1, <<"1", "0">>, pr))
  /\ qty0 = [id \in NftIds |-> marketplace_nfts[id].quantity]
  /\ release \in ReleasesFor(PriceTextsOf(marketplace_nfts))
  /\ orders = <<>>
  /\ marketplace_sell_offers \in {<<>>, <<OfferX1>>}
  /\ h = [i \in Handlers |-> IdleHandler]
  /\ rowLock = [id \in NftIds |-> 0]
  /\ faults = 0
  /\ payLog = <<>>
  /\ calls = [c \in Callers |-> IdleCall]
  /\ gateway = <<>>
  /\ InitCatalog

InitStore == InitListings(LAMBDA id, q, px, pr : NftRow(q, px, pr))

(***************************************************************************)
(* Confirmations delivered to the webhook of server.js                     *)
(***************************************************************************)
EventsServer ==
  \* purchases of listing 1: with and without an echoed offer index, the
  \* same payload uuid under two transaction ids, and the blob pay-xrp
  \* builds, which echoes no currency
  { Purchase(1, "t1", "u1", "XRP", "X1", "drops"),
    Purchase(1, "t2", "u1", "XRP", NULL, "drops"),
    Purchase(1, "t1", "u2", NULL, NULL, "drops") }
  \cup
  \* a purchase of listing 2 in the secondary currency, of an unknown listing
  { Purchase(2, "t1", "u2", "RLUSD", NULL, "issued"),
    Purchase(GhostId, "t2", "u2", "XRP", "X1", "drops") }
  \cup
  \* blobs whose currency is not the one paid in: a third currency code for
  \* a payment in drops, "XRP" for a payment in the issued currency
  { Purchase(1, "t2", "u2", "EUR", NULL, "drops"),
    Purchase(2, "t2", "u1", "XRP", NULL, "issued") }
  \cup
  \* not signed, not dispatched successfully
  { Payload(f[1], f[2], "NFTokenAcceptOffer", "t1", "u1", 1, Buyer, "XRP",
            "X1", "drops", NoId, NULL, NULL) :
      f \in {<<FALSE, TRUE>>, <<TRUE, FALSE>>} }
  \cup
  \* no transaction id, no listing id, no buyer account
  { Purchase(1, NULL, "u1", "XRP", "X1", "drops"),
    Purchase(NoId, "t1", "u1", "XRP", "X1", "drops"),
    Payload(TRUE, TRUE, "NFTokenAcceptOffer", "t1", "u1", 1, NULL, "XRP",
            "X1", "drops", NoId, NULL, NULL) }
  \cup
  \* offer confirmations: the tracked offer again, a first offer of listing 2
  \* with no currency in its blob, and one whose offer index is missing
  { OfferCreated(1, "N1", "X1", "XRP"),
    OfferCreated(2, "N2", "X2", NULL),
    OfferCreated(2, "N2", NULL, "RLUSD") }

(***************************************************************************)
(* Store helpers                                                           *)
(***************************************************************************)
\* rows of orders that collide with row r on a unique index:
\* orders_unique_payload and orders_unique_tx are partial (IS NOT NULL)
Collides(r, o) ==
  \/ r.xumm_payload_uuid # NULL /\ r.xumm_payload_uuid = o.xumm_payload_uuid
  \/ r.tx_hash # NULL /\ r.tx_hash = o.tx_hash

CommittedCollision(r) == \E k \in 1..Len(orders) : Collides(r, orders[k])

\* another open transaction holds an uncommitted row colliding with r:
\* INSERT ... ON CONFLICT waits for that transaction to end
PendingCollision(i, r) ==
  \E j \in Handlers :
    /\ j # i
    /\ h[j].pc \notin {"idle", "done"}
    /\ h[j].inserted # NoRow
    /\ Collides(r, h[j].inserted)

\* UPDATE marketplace_sell_offers SET status='USED' WHERE sell_offer_index=x
SetUsed(tbl, x) ==
  [k \in 1..Len(tbl) |->
     IF tbl[k].sell_offer_index = x THEN [tbl[k] EXCEPT !.status = "USED"]
     ELSE tbl[k]]

\* marketplace_sell_offers_offer_uq and marketplace_sell_offers_token_uq
OfferConflict(r) ==
  \E k \in 1..Len(marketplace_sell_offers) :
    LET o == marketplace_sell_offers[k] IN
    \/ o.sell_offer_index = r.sell_offer_index
    \/ /\ o.marketplace_nft_id = r.marketplace_nft_id
       /\ o.nftoken_id = r.nftoken_id
       /\ o.currency = r.currency

\* UPDATE marketplace_nfts SET quantity = quantity - 1,
\*                             sold_count = sold_count + 1 WHERE id = $1
\* variant: the update takes one unit and does not count the sale
DecrementRow_QuantityOnly(tbl, id) ==
  IF id \in DOMAIN tbl
  THEN [tbl EXCEPT ![id].quantity = @ - 1]
  ELSE tbl

DecrementRow(tbl, id) ==
  IF id \in DOMAIN tbl
  THEN [tbl EXCEPT ![id].quantity = @ - 1, ![id].sold_count = @ + 1]
  ELSE tbl

\* rows of tbl with offer index x whose status the USED update changes
Changes(tbl, x) ==
  \E k \in 1..Len(tbl) :
    tbl[k].sell_offer_index = x /\ tbl[k].status # "USED"

\* the handler answers and, in its finally block, releases its connection;
\* unless it committed, ROLLBACK discards the writes of its transaction
Finished(hi, code, how) ==
  [hi EXCEPT !.pc = "done", !.res = code, !.outcome = how,
             !.inserted = IF how = "recorded" THEN @ ELSE NoRow,
             !.decremented = IF how = "recorded" THEN @ ELSE FALSE,
             !.offerLock = NULL]

Respond(i, code, how) == h' = [h EXCEPT ![i] = Finished(h[i], code, how)]

\* an awaited statement of the try block rejected: control is in the catch
\* block, whose first statement is await client.query("ROLLBACK")
Thrown(hi, why) == [hi EXCEPT !.pc = "catch", !.err = why]

Throw(i, why) == h' = [h EXCEPT ![i] = Thrown(h[i], why)]

Release(i) ==
  [id \in DOMAIN rowLock |-> IF rowLock[id] = i THEN 0 ELSE rowLock[id]]

\* deliveries are numbered in the order they reach the server
MayStart(i) ==
  /\ h[i].pc = "idle"
  /\ IF i = 1 THEN TRUE ELSE h[i - 1].pc # "idle"
  /\ InUse < PoolSize

(***************************************************************************)
(* POST /api/xaman/webhook of server.js                                    *)
(***************************************************************************)
\* pool.connect() resolves and the handler runs to its first store statement:
\* the signed/dispatched filter, the NFTokenCreateOffer branch, the
\* txid / nft_id / buyer check
Receive(i, e) ==
  /\ MayStart(i)
  /\ LET hi == [h[i] EXCEPT !.p = e] IN
     IF ~e.dispatched \/ ~e.signed
     THEN h' = [h EXCEPT ![i] = Finished(hi, 200, "filtered")]
     ELSE IF e.TransactionType = "NFTokenCreateOffer"
     THEN IF e.marketplace_nft_id # NoId /\ e.offerIndex # NULL
          THEN h' = [h EXCEPT ![i] = [hi EXCEPT !.pc = "offer"]]
          ELSE h' = [h EXCEPT ![i] = Finished(hi, 200, "offer_skipped")]
     ELSE IF e.txid = NULL \/ e.nft_id = NoId \/ e.account = NULL
     THEN h' = [h EXCEPT ![i] = Finished(hi, 200, "incomplete")]
     ELSE IF e.sell_offer_index # NULL
     THEN h' = [h EXCEPT ![i] = [hi EXCEPT !.pc = "mark_used"]]
     ELSE h' = [h EXCEPT ![i] = [hi EXCEPT !.pc = "lock", !.began = TRUE]]
  /\ UNCHANGED <<marketplace_nfts, orders, marketplace_sell_offers, rowLock,
                 faults, qty0, release, payLog, calls, gateway,
                 marketAllCache, clock, reqs>>

\* the row the NFTokenCreateOffer branch inserts
OfferRow(e) ==
  [marketplace_nft_id |-> e.marketplace_nft_id,
   nftoken_id |-> IF e.NFTokenID = NULL THEN "undefined" ELSE e.NFTokenID,
   sell_offer_index |-> e.offerIndex,
   currency |-> IF e.currency = NULL THEN "XRP" ELSE e.currency,
   status |-> "OPEN"]

\* SaveSellOffer as an upsert: a conflicting row is overwritten by the new
\* OPEN row
SaveSellOffer_Reopen(i) ==
  /\ h[i].pc = "offer"
  /\ InUse < PoolSize
  /\ LET r == OfferRow(h[i].p) IN
     IF OfferConflict(r)
     THEN /\ Respond(i, 200, "offer_saved")
          /\ marketplace_sell_offers' =
               [k \in 1..Len(marketplace_sell_offers) |->
                  IF marketplace_sell_offers[k].sell_offer_index
                       = r.sell_offer_index
                  THEN r ELSE marketplace_sell_offers[k]]
     ELSE /\ h' = [h EXCEPT ![i] = [Finished(h[i], 200, "offer_saved")
                                      EXCEPT !.saved = TRUE]]
          /\ marketplace_sell_offers' =
               Append(marketplace_sell_offers, r)
  /\ UNCHANGED <<marketplace_nfts, orders, rowLock, faults, qty0, release, payLog, calls, gateway,
                 marketAllCache, clock, reqs>>

\* the INSERT of the NFTokenCreateOffer branch, sent through pool.query while
\* the invocation still holds its own connection; it has no ON CONFLICT
\* clause, so a unique violation is an exception
SaveSellOffer(i) ==
  /\ h[i].pc = "offer"
  /\ InUse < PoolSize
  /\ IF OfferConflict(OfferRow(h[i].p))
     THEN /\ Throw(i, "raised")
          /\ UNCHANGED marketplace_sell_offers
     ELSE /\ h' = [h EXCEPT ![i] = [Finished(h[i], 200, "offer_saved")
                                      EXCEPT !.saved = TRUE]]
          /\ marketplace_sell_offers' =
               Append(marketplace_sell_offers, OfferRow(h[i].p))
  /\ UNCHANGED <<marketplace_nfts, orders, rowLock, faults, qty0, release, payLog, calls, gateway,
                 marketAllCache, clock, reqs>>

\* UPDATE marketplace_sell_offers SET status='USED', issued on the
\* invocation's connection before BEGIN: it commits on its own
MarkUsed(i) ==
  /\ h[i].pc = "mark_used"
  /\ marketplace_sell_offers' =
       SetUsed(marketplace_sell_offers, h[i].p.sell_offer_index)
  /\ h' = [h EXCEPT ![i].pc = "lock", ![i].began = TRUE,
                    ![i].used =
                      IF Changes(marketplace_sell_offers,
                                 h[i].p.sell_offer_index)
                      THEN h[i].p.sell_offer_index ELSE NULL]
  /\ UNCHANGED <<marketplace_nfts, orders, rowLock, faults, qty0, release, payLog, calls, gateway,
                 marketAllCache, clock, reqs>>

\* LockNft with a plain SELECT: the row is read without waiting for the
\* transaction that holds it
LockNft_NoWait(i) ==
  /\ h[i].pc = "lock"
  /\ LET id == h[i].p.nft_id IN
     IF id \notin DOMAIN marketplace_nfts
     THEN /\ h' = [h EXCEPT ![i].pc = "rollback_missing"]
          /\ UNCHANGED rowLock
     ELSE IF marketplace_nfts[id].quantity <= 0
          THEN /\ h' = [h EXCEPT ![i].pc = "rollback"]
               /\ UNCHANGED rowLock
          ELSE /\ h' = [h EXCEPT ![i].pc = "insert"]
               /\ rowLock' = [rowLock EXCEPT ![id] = i]
  /\ UNCHANGED <<marketplace_nfts, orders, marketplace_sell_offers, faults,
                 qty0, release, payLog, calls, gateway,
                 marketAllCache, clock, reqs>>

\* LockNft without the sold-out guard
LockNft_NoGuard(i) ==
  /\ h[i].pc = "lock"
  /\ LET id == h[i].p.nft_id IN
     IF id \notin DOMAIN marketplace_nfts
     THEN /\ h' = [h EXCEPT ![i].pc = "rollback_missing"]
          /\ UNCHANGED rowLock
     ELSE /\ rowLock[id] = 0
          /\ h' = [h EXCEPT ![i].pc = "insert"]
          /\ rowLock' = [rowLock EXCEPT ![id] = i]
  /\ UNCHANGED <<marketplace_nfts, orders, marketplace_sell_offers, faults,
                 qty0, release, payLog, calls, gateway,
                 marketAllCache, clock, reqs>>

\* BEGIN; SELECT * FROM marketplace_nfts WHERE id=$1 FOR UPDATE; the
\* sold-out guard.  The SELECT waits while another transaction holds the
\* row and locks the row it returns, also when the guard then rejects it;
\* the guard sends ROLLBACK for an unknown listing as for a sold-out one.
LockNft(i) ==
  /\ h[i].pc = "lock"
  /\ LET id == h[i].p.nft_id IN
     IF id \notin DOMAIN marketplace_nfts
     THEN /\ h' = [h EXCEPT ![i].pc = "rollback_missing"]
          /\ UNCHANGED rowLock
     ELSE /\ rowLock[id] = 0
          /\ rowLock' = [rowLock EXCEPT ![id] = i]
          /\ h' = [h EXCEPT ![i].pc =
                              IF marketplace_nfts[id].quantity <= 0
                              THEN "rollback" ELSE "insert"]
  /\ UNCHANGED <<marketplace_nfts, orders, marketplace_sell_offers, faults,
                 qty0, release, payLog, calls, gateway,
                 marketAllCache, clock, reqs>>

\* the pcs at which the handler awaits a ROLLBACK of its try block, and
\* the outcome it answers with
RollbackPcs == {"rollback", "rollback_missing", "rollback_dup"}

RollbackOutcome(pc) ==
  IF pc = "rollback" THEN "sold_out"
  ELSE IF pc = "rollback_missing" THEN "not_found"
  ELSE "duplicate"

\* the ROLLBACK of the sold-out guard, or the one that follows an insert
\* that inserted nothing, has returned: the row lock is gone and the
\* handler answers
Rollback(i) ==
  /\ h[i].pc \in RollbackPcs
  /\ Respond(i, 200, RollbackOutcome(h[i].pc))
  /\ rowLock' = Release(i)
  /\ UNCHANGED <<marketplace_nfts, orders, marketplace_sell_offers, faults,
                 qty0, release, payLog, calls, gateway,
                 marketAllCache, clock, reqs>>

\* the row server.js inserts: price and currency chosen by blob.currency,
\* tx_hash the only idempotency key written
OrderRow(e, nft) ==
  [marketplace_nft_id |-> e.nft_id,
   buyer_wallet |-> e.account,
   price |-> NumericIn(IF e.currency = "RLUSD" THEN nft.price_rlusd
                       ELSE nft.price_xrp),
   currency |-> e.currency,
   status |-> "PAID",
   xumm_payload_uuid |-> NULL,
   tx_hash |-> e.txid]

\* price NUMERIC(20,8) NOT NULL, currency TEXT NOT NULL, buyer_wallet TEXT
\* NOT NULL; a text that is no numeric literal fails the conversion
InsertRaises(r) ==
  \/ r.price.kind \in {"error", "null"}
  \/ r.currency = NULL
  \/ r.buyer_wallet = NULL

\* INSERT INTO orders ... ON CONFLICT DO NOTHING RETURNING id of row r, and
\* the rowCount test that follows it: the store raises, or the insert
\* inserted nothing and the handler sends ROLLBACK, or the row is written
InsertRow(i, r) ==
  /\ IF InsertRaises(r)
     THEN Throw(i, "raised")
     ELSE IF CommittedCollision(r)
     THEN h' = [h EXCEPT ![i].pc = "rollback_dup"]
     ELSE /\ ~PendingCollision(i, r)
          /\ h' = [h EXCEPT ![i].pc = "decrement", ![i].inserted = r]
  /\ UNCHANGED <<marketplace_nfts, orders, marketplace_sell_offers, rowLock,
                 faults, qty0, release, payLog, calls, gateway,
                 marketAllCache, clock, reqs>>

InsertOrder(i) ==
  /\ h[i].pc = "insert"
  /\ InsertRow(i, OrderRow(h[i].p, marketplace_nfts[h[i].p.nft_id]))

\* UPDATE marketplace_nfts SET quantity = quantity - 1, ... WHERE id = $1,
\* uncommitted until COMMIT
Decrement(i) ==
  /\ h[i].pc = "decrement"
  /\ h' = [h EXCEPT ![i].pc = "commit", ![i].decremented = TRUE]
  /\ UNCHANGED <<marketplace_nfts, orders, marketplace_sell_offers, rowLock,
                 faults, qty0, release, payLog, calls, gateway,
                 marketAllCache, clock, reqs>>

\* COMMIT: the transaction's writes become the committed state
Commit(i) ==
  /\ h[i].pc = "commit"
  /\ orders' = IF h[i].inserted # NoRow THEN Append(orders, h[i].inserted)
               ELSE orders
  /\ marketplace_nfts' =
       IF h[i].decremented THEN DecrementRow(marketplace_nfts, h[i].p.nft_id)
       ELSE marketplace_nfts
  /\ Respond(i, 200, "recorded")
  /\ rowLock' = Release(i)
  /\ UNCHANGED <<marketplace_sell_offers, faults, qty0, release, payLog, calls, gateway,
                 marketAllCache, clock, reqs>>

\* a store statement of the invocation fails and its await rejects.  err
\* names the statement that failed.
StoreFailure(i) ==
  /\ h[i].pc \in {"offer", "mark_used", "lock", "insert", "decrement",
                  "commit"} \cup RollbackPcs
  /\ faults < MaxFaults
  /\ faults' = faults + 1
  /\ Throw(i, "failed_" \o h[i].pc)
  /\ UNCHANGED <<marketplace_nfts, orders, marketplace_sell_offers, rowLock,
                 qty0, release, payLog, calls, gateway, marketAllCache, clock, reqs>>

\* variant: the catch block answers 500 without ROLLBACK
Catch_NoRollback(i) ==
  /\ h[i].pc = "catch"
  /\ Respond(i, 500, h[i].err)
  /\ UNCHANGED <<marketplace_nfts, orders, marketplace_sell_offers, rowLock,
                 faults, qty0, release, payLog, calls, gateway, marketAllCache, clock,
                 reqs>>

\* the ROLLBACK of the catch block has returned: the transaction's writes
\* and its row lock are gone, the handler answers 500 and finally releases
\* the connection
Catch(i) ==
  /\ h[i].pc = "catch"
  /\ Respond(i, 500, h[i].err)
  /\ rowLock' = Release(i)
  /\ UNCHANGED <<marketplace_nfts, orders, marketplace_sell_offers, faults,
                 qty0, release, payLog, calls, gateway, marketAllCache, clock, reqs>>

\* the ROLLBACK of the catch block rejects: the rejection leaves the
\* handler before res.status(500), so the request is never answered;
\* finally releases the connection.  A ROLLBACK is rejected when the
\* connection is lost, and the store then ends the session's transaction.
\* The loss that failed the statement before fails the ROLLBACK as well;
\* after an error the store raised it is a failure of its own.
CatchFailure(i) ==
  /\ h[i].pc = "catch"
  /\ IF h[i].err = "raised"
     THEN faults < MaxFaults /\ faults' = faults + 1
     ELSE UNCHANGED faults
  /\ Respond(i, 0, "unanswered")
  /\ rowLock' = Release(i)
  /\ UNCHANGED <<marketplace_nfts, orders, marketplace_sell_offers, qty0, release,
                 payLog, calls, gateway, marketAllCache, clock, reqs>>

Init == InitStore

Next ==
  \E i \in Handlers :
    \/ \E e \in EventsServer : Receive(i, e)
    \/ SaveSellOffer(i)
    \/ MarkUsed(i)
    \/ LockNft(i)
    \/ Rollback(i)
    \/ InsertOrder(i)
    \/ Decrement(i)
    \/ Commit(i)
    \/ StoreFailure(i)
    \/ Catch(i)
    \/ CatchFailure(i)

Spec == Init /\ [][Next]_vars

(***************************************************************************)
(* POST /api/xaman/webhook of part_003                                     *)
(***************************************************************************)
\* a signed NFTokenAcceptOffer whose transaction the ledger recorded as
\* failed, and the other bodies part_003 tells apart
EventsPart003 ==
  { Purchase(1, "t1", "u1", "XRP", "X1", "drops"),
    Purchase(1, "t2", "u2", "XRP", "X1", "drops"),
    Purchase(2, "t1", "u1", "XRP", "X1", "drops"),
    Purchase(2, "t2", "u2", NULL, NULL, "issued"),
    Purchase(GhostId, "t2", "u2", "XRP", "X1", "drops") }
  \cup
  { Payload(f[1], f[2], "NFTokenAcceptOffer", "t1", "u1", 1, Buyer, "XRP",
            "X1", "drops", NoId, NULL, NULL) :
      f \in (BOOLEAN \X BOOLEAN) \ {<<TRUE, TRUE>>} }
  \cup
  { Purchase(1, NULL, "u1", "XRP", "X1", "drops"),
    Purchase(NoId, "t1", "u1", "XRP", "X1", "drops"),
    Payload(TRUE, TRUE, "NFTokenAcceptOffer", "t1", "u1", 1, NULL, "XRP",
            "X1", "drops", NoId, NULL, NULL),
    Payload(TRUE, TRUE, "NFTokenMint", "t3", "u3", NoId, "rCreator", NULL,
            NULL, "drops", NoId, NULL, NULL) }
  \cup
  \* a mint confirmation with its submission id and the minted tokens, and
  \* a signed body without custom_meta.blob
  { [Payload(TRUE, TRUE, "NFTokenMint", "t3", "u3", NoId, "rCreator", NULL,
             NULL, "drops", NoId, NULL, NULL)
       EXCEPT !.submission_id = 1, !.minted = TRUE],
    [Payload(TRUE, TRUE, "NFTokenAcceptOffer", "t1", "u1", NoId, Buyer,
             NULL, NULL, "drops", NoId, NULL, NULL)
       EXCEPT !.blob = FALSE] }
  \cup
  { OfferCreated(1, "N1", "X1", "XRP"),
    OfferCreated(1, "N1", "X2", NULL),
    OfferCreated(2, "N2", "X2", "RLUSD"),
    OfferCreated(NoId, "N2", "X2", "RLUSD"),
    OfferCreated(2, "N2", NULL, "RLUSD"),
    OfferCreated(2, NULL, "X2", "RLUSD") }

\* Receive003 with BEGIN and the row lock taken before the request to the
\* ledger
Receive003_LockFirst(i, e) ==
  /\ MayStart(i)
  /\ LET hi == [h[i] EXCEPT !.p = e] IN
     IF ~e.signed \/ e.txid = NULL
     THEN /\ h' = [h EXCEPT ![i] = Finished(hi, 200, "filtered")]
          /\ UNCHANGED rowLock
     ELSE /\ h' = [h EXCEPT ![i] = [hi EXCEPT !.pc = "fetch",
                                              !.began = TRUE]]
          /\ rowLock' = [id \in NftIds |->
                           IF id = e.nft_id /\ rowLock[id] = 0 THEN i
                           ELSE rowLock[id]]
  /\ UNCHANGED <<marketplace_nfts, orders, marketplace_sell_offers,
                 faults, qty0, release, payLog, calls, gateway, marketAllCache,
                 clock, reqs>>

\* pool.connect() resolves; the signed / txid filter (no dispatch outcome is
\* read), the return for a body without custom_meta.blob, the NFTokenMint
\* branch (with a submission id and minted tokens it sends the UPDATE of
\* submissions), then the request to the ledger for the transaction
Receive003(i, e) ==
  /\ MayStart(i)
  /\ LET hi == [h[i] EXCEPT !.p = e] IN
     IF ~e.signed \/ e.txid = NULL
     THEN h' = [h EXCEPT ![i] = Finished(hi, 200, "filtered")]
     ELSE IF ~e.blob
     THEN h' = [h EXCEPT ![i] = Finished(hi, 200, "no_blob")]
     ELSE IF e.TransactionType = "NFTokenMint"
     THEN IF e.submission_id # NoId /\ e.minted
          THEN h' = [h EXCEPT ![i] = [hi EXCEPT !.pc = "mint"]]
          ELSE h' = [h EXCEPT ![i] = Finished(hi, 200, "minted")]
     ELSE h' = [h EXCEPT ![i] = [hi EXCEPT !.pc = "fetch"]]
  /\ UNCHANGED <<marketplace_nfts, orders, marketplace_sell_offers, rowLock,
                 faults, qty0, release, payLog, calls, gateway,
                 marketAllCache, clock, reqs>>

\* UPDATE submissions SET nftoken_ids = nftoken_ids || $1, sent through
\* pool.query while the invocation holds its own connection; appended
\* records that the tokens were added to the submission
SaveMinted003(i) ==
  /\ h[i].pc = "mint"
  /\ InUse < PoolSize
  /\ h' = [h EXCEPT ![i] = [Finished(h[i], 200, "minted")
                              EXCEPT !.appended = TRUE]]
  /\ UNCHANGED <<marketplace_nfts, orders, marketplace_sell_offers, rowLock,
                 faults, qty0, release, payLog, calls, gateway,
                 marketAllCache, clock, reqs>>

\* the ledger answers: the NFTokenCreateOffer branch on the transaction's
\* type, otherwise the nft_id / buyer check and BEGIN
FetchTx003(i) ==
  /\ h[i].pc = "fetch"
  /\ LET e == h[i].p IN
     IF e.TransactionType = "NFTokenCreateOffer"
     THEN IF e.marketplace_nft_id # NoId /\ e.offerIndex # NULL
             /\ e.NFTokenID # NULL
          THEN h' = [h EXCEPT ![i].pc = "offer"]
          ELSE Respond(i, 200, "offer_skipped")
     ELSE IF e.nft_id = NoId \/ e.account = NULL
     THEN Respond(i, 200, "incomplete")
     ELSE h' = [h EXCEPT ![i].pc = "lock", ![i].began = TRUE]
  /\ UNCHANGED <<marketplace_nfts, orders, marketplace_sell_offers, rowLock,
                 faults, qty0, release, payLog, calls, gateway,
                 marketAllCache, clock, reqs>>

\* INSERT INTO marketplace_sell_offers ... ON CONFLICT DO NOTHING, sent
\* through pool.query while the invocation holds its own connection
SaveSellOffer003(i) ==
  /\ h[i].pc = "offer"
  /\ InUse < PoolSize
  /\ IF OfferConflict(OfferRow(h[i].p))
     THEN /\ Respond(i, 200, "offer_conflict")
          /\ UNCHANGED marketplace_sell_offers
     ELSE /\ h' = [h EXCEPT ![i] = [Finished(h[i], 200, "offer_saved")
                                      EXCEPT !.saved = TRUE]]
          /\ marketplace_sell_offers' =
               Append(marketplace_sell_offers, OfferRow(h[i].p))
  /\ UNCHANGED <<marketplace_nfts, orders, rowLock, faults, qty0, release, payLog, calls, gateway,
                 marketAllCache, clock, reqs>>

\* the quantity UPDATE, followed by the USED update when the blob echoes an
\* offer index
Decrement003(i) ==
  /\ h[i].pc = "decrement"
  /\ h' = [h EXCEPT ![i].pc = IF h[i].p.sell_offer_index # NULL
                              THEN "mark_used" ELSE "commit",
                    ![i].decremented = TRUE]
  /\ UNCHANGED <<marketplace_nfts, orders, marketplace_sell_offers, rowLock,
                 faults, qty0, release, payLog, calls, gateway,
                 marketAllCache, clock, reqs>>

\* rows of tbl with offer index x
Matches(tbl, x) == \E k \in 1..Len(tbl) : tbl[k].sell_offer_index = x

\* UPDATE marketplace_sell_offers SET status='USED' inside the transaction:
\* it waits while another open transaction has updated a row with the
\* same index, and keeps the rows it matched locked until its own end
MarkUsed003(i) ==
  /\ h[i].pc = "mark_used"
  /\ LET x == h[i].p.sell_offer_index IN
     /\ \A j \in Handlers \ {i} : h[j].offerLock # x
     /\ h' = [h EXCEPT ![i].pc = "commit",
                       ![i].used =
                         IF Changes(marketplace_sell_offers, x)
                         THEN x ELSE NULL,
                       ![i].offerLock =
                         IF Matches(marketplace_sell_offers, x)
                         THEN x ELSE NULL]
  /\ UNCHANGED <<marketplace_nfts, orders, marketplace_sell_offers, rowLock,
                 faults, qty0, release, payLog, calls, gateway,
                 marketAllCache, clock, reqs>>

\* COMMIT of part_003: order, decrement and USED update become visible
Commit003(i) ==
  /\ h[i].pc = "commit"
  /\ orders' = IF h[i].inserted # NoRow THEN Append(orders, h[i].inserted)
               ELSE orders
  /\ marketplace_nfts' =
       IF h[i].decremented THEN DecrementRow(marketplace_nfts, h[i].p.nft_id)
       ELSE marketplace_nfts
  /\ marketplace_sell_offers' =
       IF h[i].used # NULL THEN SetUsed(marketplace_sell_offers, h[i].used)
       ELSE marketplace_sell_offers
  /\ Respond(i, 200, "recorded")
  /\ rowLock' = Release(i)
  /\ UNCHANGED <<faults, qty0, release, payLog, calls, gateway,
                 marketAllCache, clock, reqs>>

\* the ledger request or a store statement fails and its await rejects
Failure003(i) ==
  /\ h[i].pc \in {"fetch", "mint", "offer", "lock", "insert", "decrement",
                  "mark_used", "commit"} \cup RollbackPcs
  /\ faults < MaxFaults
  /\ faults' = faults + 1
  /\ Throw(i, "failed_" \o h[i].pc)
  /\ UNCHANGED <<marketplace_nfts, orders, marketplace_sell_offers, rowLock,
                 qty0, release, payLog, calls, gateway, marketAllCache, clock, reqs>>

\* the ROLLBACK of the catch block has returned: the uncommitted order,
\* decrement and USED update are gone with the locks, the handler answers 500
Catch003(i) ==
  /\ h[i].pc = "catch"
  /\ h' = [h EXCEPT ![i] = [Finished(h[i], 500, h[i].err)
                              EXCEPT !.used = NULL]]
  /\ rowLock' = Release(i)
  /\ UNCHANGED <<marketplace_nfts, orders, marketplace_sell_offers, faults,
                 qty0, release, payLog, calls, gateway, marketAllCache, clock, reqs>>

\* the ROLLBACK of the catch block rejects: no answer is sent
CatchFailure003(i) ==
  /\ h[i].pc = "catch"
  /\ IF h[i].err = "raised"
     THEN faults < MaxFaults /\ faults' = faults + 1
     ELSE UNCHANGED faults
  /\ h' = [h EXCEPT ![i] = [Finished(h[i], 0, "unanswered")
                              EXCEPT !.used = NULL]]
  /\ rowLock' = Release(i)
  /\ UNCHANGED <<marketplace_nfts, orders, marketplace_sell_offers, qty0, release,
                 payLog, calls, gateway, marketAllCache, clock, reqs>>

NextPart003 ==
  \E i \in Handlers :
    \/ \E e \in EventsPart003 : Receive003(i, e)
    \/ SaveMinted003(i)
    \/ FetchTx003(i)
    \/ SaveSellOffer003(i)
    \/ LockNft(i)
    \/ Rollback(i)
    \/ InsertOrder(i)
    \/ Decrement003(i)
    \/ MarkUsed003(i)
    \/ Commit003(i)
    \/ Failure003(i)
    \/ Catch003(i)
    \/ CatchFailure003(i)

SpecPart003 == Init /\ [][NextPart003]_vars

(***************************************************************************)
(* POST /api/xaman/webhook of part_000                                     *)
(***************************************************************************)
RefIds == {NULL, "t1", "t2"}

EventsPart000 ==
  \* purchases of listing 1 paid in XRP, with either, both or no reference
  { Purchase(1, tx, uu, NULL, NULL, "drops") :
      tx \in RefIds, uu \in {NULL, "u1"} }
  \cup
  \* purchases of listing 2 paid in the issued currency, of an unknown listing
  { Purchase(2, "t1", "u2", NULL, NULL, "issued"),
    Purchase(2, "t2", "u1", NULL, NULL, "issued"),
    Purchase(GhostId, "t2", "u2", NULL, NULL, "drops") }
  \cup
  { Payload(f[1], f[2], "NFTokenAcceptOffer", "t1", "u1", 1, Buyer, NULL,
            NULL, "drops", NoId, NULL, NULL) :
      f \in (BOOLEAN \X BOOLEAN) \ {<<TRUE, TRUE>>} }
  \cup
  { Purchase(NoId, "t1", "u1", NULL, NULL, "drops"),
    Payload(TRUE, TRUE, "NFTokenAcceptOffer", "t1", "u1", 1, NULL, NULL,
            NULL, "drops", NoId, NULL, NULL) }

\* pool.connect() resolves; the filter, the nft_id / buyer check, BEGIN
Receive000(i, e) ==
  /\ MayStart(i)
  /\ LET hi == [h[i] EXCEPT !.p = e] IN
     IF ~e.dispatched \/ ~e.signed
     THEN h' = [h EXCEPT ![i] = Finished(hi, 200, "filtered")]
     ELSE IF e.nft_id = NoId \/ e.account = NULL
     THEN h' = [h EXCEPT ![i] = Finished(hi, 200, "incomplete")]
     ELSE h' = [h EXCEPT ![i] = [hi EXCEPT !.pc = "lock", !.began = TRUE]]
  /\ UNCHANGED <<marketplace_nfts, orders, marketplace_sell_offers, rowLock,
                 faults, qty0, release, payLog, calls, gateway,
                 marketAllCache, clock, reqs>>

\* the row part_000 inserts: currency from the delivered amount, price
\* through parsePrice, both idempotency keys
OrderRow000(e, nft) ==
  [marketplace_nft_id |-> e.nft_id,
   buyer_wallet |-> e.account,
   price |-> NumericParam(IF e.delivered_amount = "issued"
                          THEN parsePrice(nft.price_rlusd)
                          ELSE parsePrice(nft.price_xrp)),
   currency |-> IF e.delivered_amount = "issued" THEN "RLUSD" ELSE "XRP",
   status |-> "PAID",
   xumm_payload_uuid |-> e.payload_uuidv4,
   tx_hash |-> e.txid]

InsertOrder000(i) ==
  /\ h[i].pc = "insert"
  /\ InsertRow(i, OrderRow000(h[i].p, marketplace_nfts[h[i].p.nft_id]))

\* a store statement fails and its await rejects; the catch block is the
\* one of server.js
Failure000(i) ==
  /\ h[i].pc \in {"lock", "insert", "decrement", "commit"} \cup RollbackPcs
  /\ faults < MaxFaults
  /\ faults' = faults + 1
  /\ Throw(i, "failed_" \o h[i].pc)
  /\ UNCHANGED <<marketplace_nfts, orders, marketplace_sell_offers, rowLock,
                 qty0, release, payLog, calls, gateway, marketAllCache, clock, reqs>>

\* a row of marketplace_nfts of part_000 with the columns its webhook,
\* add-nft, toggle-delist and market/all read and write
Row000(sub, q, px, pr) ==
  [submission_id |-> sub, quantity |-> q, sold_count |-> 0,
   price_xrp |-> px, price_rlusd |-> pr, minted |-> TRUE, sold |-> FALSE,
   is_delisted |-> FALSE]

InitPart000 == InitListings(Row000) /\ marketplace_sell_offers = <<>>

(***************************************************************************)
(* JS numbers: IEEE 754 binary64                                           *)
(***************************************************************************)
\* a natural number of any size is the sequence of its digits in base
\* 1000, least significant first, the last one not 0 (0 is <<>>)
BigBase == 10 * 10 * 10

Limb(a, k) == IF k \in 1..Len(a) THEN a[k] ELSE 0

\* a without its leading zero digits
BigTrim(a) ==
  SubSeq(a, 1, Cardinality({k \in 1..Len(a) :
                              \E j \in k..Len(a) : a[j] # 0}))

BigOfNat(n) ==
  BigTrim(<<n % BigBase, (n \div BigBase) % BigBase,
            (n \div (BigBase * BigBase)) % BigBase,
            n \div (BigBase * BigBase * BigBase)>>)

\* a * 1000^n
BigShift(a, n) == IF a = <<>> THEN <<>> ELSE [k \in 1..n |-> 0] \o a

BigLess(a, b) ==
  \/ Len(a) < Len(b)
  \/ /\ Len(a) = Len(b)
     /\ \E k \in 1..Len(a) :
          a[k] < b[k] /\ \A j \in (k + 1)..Len(a) : a[j] = b[j]

\* digit k of a + b receives a carry when a lower digit overflows and
\* every digit between passes the carry on
CarryInto(a, b, k) ==
  \E j \in 1..(k - 1) :
    /\ Limb(a, j) + Limb(b, j) >= BigBase
    /\ \A i \in (j + 1)..(k - 1) : Limb(a, i) + Limb(b, i) = BigBase - 1

\* a + b
BigAdd(a, b) ==
  BigTrim([k \in 1..((IF Len(a) > Len(b) THEN Len(a) ELSE Len(b)) + 1) |->
             (Limb(a, k) + Limb(b, k)
                + (IF CarryInto(a, b, k) THEN 1 ELSE 0)) % BigBase])

\* digit k of a - b lends to a lower digit that falls short when every
\* digit between passes the loan on
BorrowFrom(a, b, k) ==
  \E j \in 1..(k - 1) :
    /\ a[j] < Limb(b, j)
    /\ \A i \in (j + 1)..(k - 1) : a[i] = Limb(b, i)

\* a - b for a >= b
BigSub(a, b) ==
  BigTrim([k \in 1..Len(a) |->
             (a[k] - Limb(b, k) - (IF BorrowFrom(a, b, k) THEN 1 ELSE 0)
                + BigBase) % BigBase])

RECURSIVE SumOf(_, _, _), BigPower(_, _), BigDivFrom(_, _, _),
          BigOfBase(_, _)

\* f[lo] + ... + f[hi]
SumOf(f, lo, hi) ==
  IF lo > hi THEN 0
  ELSE IF lo = hi THEN f[lo]
  ELSE SumOf(f, lo, (lo + hi) \div 2) + SumOf(f, (lo + hi) \div 2 + 1, hi)

\* the sums of the digit products of a and b, by weight
Products(a, b) ==
  [k \in 1..(Len(a) + Len(b) - 1) |->
     SumOf([i \in 1..Len(a) |-> a[i] * Limb(b, k + 1 - i)], 1, Len(a))]

\* the digits of weight m of the sums p, as a number shifted by j digits
Part(p, m, j) ==
  BigShift(BigTrim([k \in 1..Len(p) |-> (p[k] \div m) % BigBase]), j)

\* the number with the digit sums p: their parts of weight 1, 1000, 1000^2
\* and 1000^3 added up (a sum is below 2^31, so below 1000^4)
Carried(p) ==
  BigAdd(BigAdd(Part(p, 1, 0), Part(p, BigBase, 1)),
         BigAdd(Part(p, BigBase * BigBase, 2),
                Part(p, BigBase * BigBase * BigBase, 3)))

\* a * b
BigMul(a, b) ==
  IF a = <<>> \/ b = <<>> THEN <<>> ELSE Carried(Products(a, b))

\* root^2 for an even n, root^2 * x for an odd one
PowerStep(root, x, n) ==
  IF root = <<>> THEN <<>>
  ELSE BigMul(BigMul(root, root), IF n % 2 = 0 THEN <<1>> ELSE x)

\* x^n by squaring
BigPower(x, n) ==
  IF n = 0 THEN <<1>> ELSE PowerStep(BigPower(x, n \div 2), x, n)

\* max(n, 0)
Positive(n) == IF n > 0 THEN n ELSE 0

\* the digits of a above the lowest s (at most three) as a value
BigTop(a, s) ==
  Limb(a, s + 1) + BigBase * Limb(a, s + 2)
    + BigBase * BigBase * Limb(a, s + 3)

\* d * t <= r
TimesFits(r, d, t) == ~BigLess(r, BigMul(d, <<t>>))

\* the quotient of r by d for r < 1000 * d among the candidates lo..hi, of
\* which the least fits: as many as fit, less one, above the least
DigitAmong(r, d, lo, hi) ==
  lo + Cardinality({t \in lo..hi : TimesFits(r, d, t)}) - 1

\* a divisor of one or two digits is its own leading digits
QuotientDigit(r, d) ==
  IF Len(d) <= 2 THEN BigTop(r, 0) \div BigTop(d, 0)
  ELSE DigitAmong(r, d,
                  BigTop(r, Len(d) - 2) \div (BigTop(d, Len(d) - 2) + 1),
                  BigTop(r, Len(d) - 2) \div BigTop(d, Len(d) - 2))

\* the state of a long division by d after the quotient digit t of the
\* remainder cur
Reduced(k, q, cur, d, t) ==
  [k |-> k, q |-> <<t>> \o q, r |-> BigSub(cur, BigMul(d, <<t>>))]

\* a step of the long division: cur is the remainder with the next digit
\* of the dividend
DivStep(k, q, cur, d) == Reduced(k, q, cur, d, QuotientDigit(cur, d))

\* long division of a by d > 0: st.k digits of a are still to come, st.q
\* are the digits of the quotient and st.r is the remainder so far
BigDivFrom(a, d, st) ==
  IF st.k = 0 THEN [q |-> BigTrim(st.q), r |-> st.r]
  ELSE BigDivFrom(a, d, DivStep(st.k - 1, st.q,
                                BigTrim(<<a[st.k]>> \o st.r), d))

\* quotient and remainder of a by d > 0; the digits of a above the length
\* of d start the remainder
BigDivMod(a, d) ==
  IF BigLess(a, d) THEN [q |-> <<>>, r |-> a]
  ELSE BigDivFrom(a, d, [k |-> Len(a) - Len(d) + 1, q |-> <<>>,
                         r |-> SubSeq(a, Len(a) - Len(d) + 2, Len(a))])

\* number of decimal digits of a
BigDigits(a) ==
  IF a = <<>> THEN 0 ELSE 3 * (Len(a) - 1) + NumDigits(a[Len(a)])

\* the decimal digits of a, most significant first
BigDecimal(a) ==
  [k \in 1..BigDigits(a) |->
     (a[(BigDigits(a) - k) \div 3 + 1]
        \div Pow10((BigDigits(a) - k) % 3)) % 10]

\* decimal digit of weight 10^pos of the digits ds
DecimalAt(ds, pos) == IF pos < Len(ds) THEN ds[Len(ds) - pos] ELSE 0

\* the number with the decimal digits ds (most significant first)
BigOfDecimal(ds) ==
  BigTrim([k \in 1..((Len(ds) + 2) \div 3) |->
             DecimalAt(ds, 3 * k - 3) + 10 * DecimalAt(ds, 3 * k - 2)
               + 100 * DecimalAt(ds, 3 * k - 1)])

\* a JS number is NaN, an infinity, or (-1)^neg * q * 2^b with q < 2^53;
\* q >= 2^52 unless b is the least exponent (subnormal) or q is 0
JsNaN == [kind |-> "NaN", neg |-> FALSE, q |-> <<>>, b |-> 0]
JsInfinity(neg) == [kind |-> "Infinity", neg |-> neg, q |-> <<>>, b |-> 0]
JsZero(neg) == [kind |-> "num", neg |-> neg, q |-> <<>>, b |-> 0]

\* bits of the significand, least and greatest exponent of q * 2^b
SignificandBits == 52 + 1
MinExponent == 0 - 1074
MaxExponent == 1024 - SignificandBits

\* 2^53 = 9007199254740992 and 2^52 = 4503599627370496
Two53 == <<992, 740, 254, 199, 7, 9>>
Two52 == <<496, 370, 627, 599, 503, 4>>

\* q * 2^b as a number: an overflow is Infinity
Finite(neg, q, b) ==
  IF q = <<>> THEN JsZero(neg)
  ELSE IF b > MaxExponent THEN JsInfinity(neg)
  ELSE [kind |-> "num", neg |-> neg, q |-> q, b |-> b]

\* a quotient rounded up to 2^53 is 2^52 with the next exponent
Rounded(neg, q, b) ==
  IF q = Two53 THEN Finite(neg, Two52, b + 1) ELSE Finite(neg, q, b)

\* round to nearest, ties to even: up when twice the remainder r2 of the
\* division by d exceeds d, or equals it and the quotient q is odd
RoundsUp(r2, d, q) == BigLess(d, r2) \/ (r2 = d /\ Limb(q, 1) % 2 = 1)

\* the quotient dm.q with remainder dm.r of a division by d, rounded
RoundQuotient(neg, dm, d, b) ==
  IF dm.r = <<>> THEN Finite(neg, dm.q, b)
  ELSE IF RoundsUp(BigAdd(dm.r, dm.r), d, dm.q)
  THEN Rounded(neg, BigAdd(dm.q, <<1>>), b)
  ELSE Finite(neg, dm.q, b)

\* the number nearest to n / d * 2^b, for n / d below 2^53
RoundNearest(neg, n, d, b) == RoundQuotient(neg, BigDivMod(n, d), d, b)

\* n / d * 2^b with the exponent raised by up
RoundFrom(neg, n, d, b, up) ==
  RoundNearest(neg, n, BigMul(d, <<2^up>>), b + up)

\* the exponent is raised until n / d is below 2^53: by the number of the
\* j for which n / d is not below 2^(53 + j) (m is d * 2^53; the estimate
\* of the exponent is short of it by 8 at most)
Fit(neg, n, d, b, m) ==
  RoundFrom(neg, n, d, b,
            Cardinality({j \in 0..7 : ~BigLess(n, BigMul(m, <<2^j>>))}))

\* n / d * 2^b = (n * 2^-b) / d for b < 0 and n / (d * 2^b) for b > 0 (pw
\* is 2^|b|)
Scaled(neg, n, d, b, pw) ==
  Fit(neg, IF b < 0 THEN BigMul(n, pw) ELSE n,
      IF b > 0 THEN BigMul(d, pw) ELSE d, b,
      BigMul(IF b > 0 THEN BigMul(d, pw) ELSE d, Two53))

\* a lower bound of the exponent of n / d, from the decimal lengths of n
\* and d (2^3.321 < 10 < 2^3.322), not below the least exponent
ExponentFrom(e10) ==
  IF (IF e10 >= 0 THEN (e10 * 3321) \div 1000 ELSE (e10 * 3322) \div 1000)
       - (SignificandBits - 1) < MinExponent
  THEN MinExponent
  ELSE (IF e10 >= 0 THEN (e10 * 3321) \div 1000 ELSE (e10 * 3322) \div 1000)
         - (SignificandBits - 1)

ToNumberFrom(neg, n, d, b) ==
  Scaled(neg, n, d, b, BigPower(<<2>>, IF b < 0 THEN 0 - b ELSE b))

\* the number nearest to n / d for naturals n > 0 and d > 0
ToNumber(neg, n, d) ==
  ToNumberFrom(neg, n, d, ExponentFrom(BigDigits(n) - BigDigits(d) - 1))

\* x * k for a number x and a natural k > 0 that is a number itself
JsTimes(x, k) ==
  IF x.kind # "num" \/ x.q = <<>> THEN x
  ELSE ToNumber(x.neg,
                BigMul(BigMul(x.q, BigOfNat(k)),
                       BigPower(<<2>>, Positive(x.b))),
                BigPower(<<2>>, Positive(0 - x.b)))

\* the floor of a quotient dm.q with remainder dm.r, with its sign
FloorOf(neg, dm) ==
  [kind |-> "num", neg |-> neg, b |-> 0,
   q |-> IF neg /\ dm.r # <<>> THEN BigAdd(dm.q, <<1>>) ELSE dm.q]

\* Math.floor(x): NaN, the infinities, the zeros and the integers are their
\* own floor
MathFloor(x) ==
  IF x.kind # "num" \/ x.q = <<>> \/ x.b >= 0 THEN x
  ELSE FloorOf(x.neg, BigDivMod(x.q, BigPower(<<2>>, 0 - x.b)))

DigitChars == <<"0", "1", "2", "3", "4", "5", "6", "7", "8", "9">>

\* the text of the decimal digits ds ("0" for none)
DigitsText(ds) ==
  IF ds = <<>> THEN <<"0">> ELSE [k \in 1..Len(ds) |-> DigitChars[ds[k] + 1]]

\* ds without its trailing zeros
DropZeros(ds) ==
  SubSeq(ds, 1, Cardinality({k \in 1..Len(ds) :
                               \E j \in k..Len(ds) : ds[j] # 0}))

\* the number the decimal digits ds over the divisor d read as
ReadsAs(ds, d) == ToNumber(FALSE, BigOfDecimal(ds), d)

\* the first k digits of v followed by zeros up to the length of v, and
\* the next number of k digits likewise
RoundedDown(v, k) == SubSeq(v, 1, k) \o [j \in 1..(Len(v) - k) |-> 0]
RoundedUp(v, k) ==
  BigDecimal(BigAdd(BigOfDecimal(RoundedDown(v, k)),
                    BigPower(<<10>>, Len(v) - k)))

\* the two numbers of k digits next to v
Neighbours(v, k) == {RoundedDown(v, k), RoundedUp(v, k)}

\* |a - b|
Distance(a, b) == IF BigLess(a, b) THEN BigSub(b, a) ELSE BigSub(a, b)

\* c is at least as near to v as o is, and when as near, c is the even one
\* (its last digit before the zeros, digit k, is even) or is o
Nearer(v, c, o, k) ==
  \/ c = o
  \/ BigLess(Distance(BigOfDecimal(v), BigOfDecimal(c)),
             Distance(BigOfDecimal(v), BigOfDecimal(o)))
  \/ /\ Distance(BigOfDecimal(v), BigOfDecimal(c))
          = Distance(BigOfDecimal(v), BigOfDecimal(o))
     /\ c[Len(c) - (Len(v) - k)] % 2 = 0

\* the nearest to v of the candidates cs
Nearest(v, cs, k) == CHOOSE c \in cs : \A o \in cs : Nearer(v, c, o, k)

\* digits and decimal exponent of the integer with the decimal digits c,
\* without its trailing zeros
Scientific(c) == [s |-> DropZeros(c), e |-> Len(c) - 1]

\* of the numbers of k digits next to v, the one that reads as x
ShortestOf(v, x, k, d) ==
  Scientific(Nearest(v, {c \in Neighbours(v, k) : ReadsAs(c, d) = x}, k))

\* the integer with the decimal digits v, over the divisor d, is the value
\* of the number x: the fewest digits that still read as x (17 always do,
\* and more digits read as x once fewer do), as digits s and decimal
\* exponent e of the integer
Shortest(v, x, d) ==
  ShortestOf(v, x,
             1 + Cardinality({k \in 1..(IF Len(v) < 17 THEN Len(v) - 1
                                        ELSE 16) :
                                \A c \in Neighbours(v, k) :
                                   ReadsAs(c, d) # x}),
             d)

\* the text of an integer of at least 2^53 with the digits r.s and the
\* decimal exponent r.e: the digits followed by zeros below 10^21, by an
\* exponent from there on
ShortestText(r) ==
  IF r.e < 21
  THEN DigitsText(r.s) \o [j \in 1..(r.e + 1 - Len(r.s)) |-> "0"]
  ELSE DigitsText(<<r.s[1]>>)
       \o (IF Len(r.s) > 1 THEN <<".">> \o DigitsText(Tail(r.s)) ELSE <<>>)
       \o <<"e", "+">> \o DigitsText(BigDecimal(BigOfNat(r.e)))

\* the text of the integer v, the value of the number x: below 2^53 it is
\* written out
IntegerText(x, v) ==
  IF BigLess(v, Two53) THEN DigitsText(BigDecimal(v))
  ELSE ShortestText(Shortest(BigDecimal(v), x, <<1>>))

\* the text of a number with a fraction, of the digits ds with n of them
\* before the point: written out when the first digit is no more than six
\* places behind the point, with an exponent otherwise
PointText(ds, n) ==
  IF n >= Len(ds)
  THEN DigitsText(ds) \o [j \in 1..(n - Len(ds)) |-> "0"]
  ELSE IF n > 0
  THEN DigitsText(SubSeq(ds, 1, n)) \o <<".">>
       \o DigitsText(SubSeq(ds, n + 1, Len(ds)))
  ELSE IF n > 0 - 6
  THEN <<"0", ".">> \o [j \in 1..(0 - n) |-> "0"] \o DigitsText(ds)
  ELSE DigitsText(<<ds[1]>>)
       \o (IF Len(ds) > 1 THEN <<".">> \o DigitsText(Tail(ds)) ELSE <<>>)
       \o <<"e", "-">> \o DigitsText(BigDecimal(BigOfNat(1 - n)))

\* the text of a number whose shortest digits are r.s, with the decimal
\* exponent r.e counted m places too high
FractionText(r, m) == PointText(r.s, r.e + 1 - m)

\* the text of the number x = q / 2^m, m > 0, whose quotient and remainder
\* by 2^m are dm: the integer when nothing remains, otherwise the shortest
\* digits of q * 5^m / 10^m
QuotientText(x, m, dm) ==
  IF dm.r = <<>> THEN IntegerText(x, dm.q)
  ELSE FractionText(Shortest(BigDecimal(BigMul(x.q, BigPower(<<5>>, m))),
                             x, BigPower(<<10>>, m)),
                    m)

\* String(x)
StringOf(x) ==
  IF x.kind = "NaN" THEN <<"N", "a", "N">>
  ELSE IF x.kind = "Infinity"
  THEN (IF x.neg THEN <<"-">> ELSE <<>>)
       \o <<"I", "n", "f", "i", "n", "i", "t", "y">>
  ELSE IF x.q = <<>> THEN <<"0">>
  ELSE (IF x.neg THEN <<"-">> ELSE <<>>)
       \o (IF x.b >= 0
           THEN IntegerText([x EXCEPT !.neg = FALSE],
                            BigMul(x.q, BigPower(<<2>>, x.b)))
           ELSE QuotientText([x EXCEPT !.neg = FALSE], 0 - x.b,
                             BigDivMod(x.q, BigPower(<<2>>, 0 - x.b))))

\* white space of a JS string: WhiteSpace and LineTerminator
JsBlanks ==
  Blanks \cup {"\\u00A0", "\\uFEFF", "\\u2028", "\\u2029", "\\u1680",
               "\\u2000", "\\u2001", "\\u2002", "\\u2003", "\\u2004",
               "\\u2005", "\\u2006", "\\u2007", "\\u2008", "\\u2009",
               "\\u200A", "\\u202F", "\\u205F", "\\u3000"}

\* s without the white space on both sides
JsTrim(s) ==
  SubSeq(s,
         1 + Cardinality({k \in 1..Len(s) :
                            \A j \in 1..k : s[j] \in JsBlanks}),
         Cardinality({k \in 1..Len(s) :
                        \E j \in k..Len(s) : s[j] \notin JsBlanks}))

\* hi * base^n + lo
Joined(hi, lo, base, n) ==
  IF hi = <<>> THEN lo ELSE BigAdd(BigMul(hi, BigPower(<<base>>, n)), lo)

\* value of the digits s in base 16, 8 or 2
BigOfBase(s, base) ==
  IF s = <<>> THEN <<>>
  ELSE IF Len(s) = 1 THEN BigOfNat(BaseDigitVal(s[1]))
  ELSE Joined(BigOfBase(SubSeq(s, 1, Len(s) \div 2), base),
              BigOfBase(SubSeq(s, Len(s) \div 2 + 1, Len(s)), base),
              base, Len(s) - Len(s) \div 2)

\* the value of the exponent digits g without leading zeros: beyond nine
\* digits every exponent overflows or underflows alike
ExponentValue(g) == IF Len(g) > 9 THEN 10^9 ELSE DigitsVal(g)

\* the exponent an ExponentPart adds: digits with an optional sign
ExponentDigits(s) == IF s # <<>> /\ s[1] \in {"+", "-"} THEN Tail(s) ELSE s

ExponentPart(s) ==
  IF ExponentDigits(s) = <<>> \/ ~AllDigits(ExponentDigits(s))
  THEN [ok |-> FALSE, val |-> 0]
  ELSE [ok |-> TRUE,
        val |-> (IF s[1] = "-" THEN 0 - 1 ELSE 1)
                  * ExponentValue(Significant(ExponentDigits(s)))]

\* the number nearest to m * 10^e for the natural m; a value of at least
\* 10^309 is Infinity, one below 10^-324 is 0
DecimalValue(neg, m, e) ==
  IF m = <<>> THEN JsZero(neg)
  ELSE IF BigDigits(m) + e > 309 THEN JsInfinity(neg)
  ELSE IF BigDigits(m) + e < 0 - 323 THEN JsZero(neg)
  ELSE ToNumber(neg, BigMul(m, BigPower(<<10>>, Positive(e))),
                BigPower(<<10>>, Positive(0 - e)))

\* the digits ip before and fp after the point, with the exponent x
DecimalParts(neg, ip, fp, x) ==
  IF ~x.ok \/ ~AllDigits(ip) \/ ~AllDigits(fp) \/ Len(ip) + Len(fp) = 0
  THEN JsNaN
  ELSE DecimalValue(neg,
                    BigOfDecimal([k \in 1..(Len(ip) + Len(fp)) |->
                                    DigitVal((ip \o fp)[k])]),
                    x.val - Len(fp))

\* the mantissa m, with its point at d (0 without one), and the exponent x
Mantissa(neg, m, d, x) ==
  DecimalParts(neg, IF d = 0 THEN m ELSE SubSeq(m, 1, d - 1),
               IF d = 0 THEN <<>> ELSE SubSeq(m, d + 1, Len(m)), x)

\* the literal s with its exponent mark at e (0 without one)
Literal(neg, s, e) ==
  Mantissa(neg, IF e = 0 THEN s ELSE SubSeq(s, 1, e - 1),
           DotPos(IF e = 0 THEN s ELSE SubSeq(s, 1, e - 1), 1),
           IF e = 0 THEN [ok |-> TRUE, val |-> 0]
           ELSE ExponentPart(SubSeq(s, e + 1, Len(s))))

\* StrUnsignedDecimalLiteral: Infinity, or digits with an optional
\* fraction and an optional exponent, at least one digit before the
\* exponent
UnsignedLiteral(neg, s) ==
  IF s = <<"I", "n", "f", "i", "n", "i", "t", "y">> THEN JsInfinity(neg)
  ELSE Literal(neg, s, ExpPos(s, 1))

\* the number with the natural value n
NumberOfBig(n) ==
  IF n = <<>> THEN JsZero(FALSE) ELSE ToNumber(FALSE, n, <<1>>)

\* a literal of base 16, 8 or 2 with the digits ds
BaseLiteral(ds, base) ==
  IF ds # <<>> /\ \A k \in 1..Len(ds) : ds[k] \in BaseDigits(base)
  THEN NumberOfBig(BigOfBase(ds, base))
  ELSE JsNaN

\* StringNumericLiteral: the empty text is 0; a literal of base 16, 8 or 2
\* has no sign; anything that is no literal is NaN
NumericLiteral(s) ==
  IF s = <<>> THEN JsZero(FALSE)
  ELSE IF HasBasePrefix(s)
  THEN BaseLiteral(SubSeq(s, 3, Len(s)), BaseOf(s[2]))
  ELSE UnsignedLiteral(s[1] = "-",
                       IF s[1] \in {"+", "-"} THEN Tail(s) ELSE s)

\* StringToNumber: white space on both sides is dropped
StringToNumber(raw) == NumericLiteral(JsTrim(raw))

DropsPerXrp == 1000000

\* Number(value) of a TEXT column value: Number(null) is 0
NumberOf(raw) == IF raw = NullTxt THEN JsZero(FALSE) ELSE StringToNumber(raw)

\* Math.floor(x * 1_000_000)
Drops(x) == MathFloor(JsTimes(x, DropsPerXrp))

\* String(Math.floor(Number(value) * 1_000_000))
DropsText(raw) == StringOf(Drops(NumberOf(raw)))

(***************************************************************************)
(* POST /api/market/pay-xrp and pay-rlusd of part_004                      *)
(***************************************************************************)
\* parsePrice of part_004: null is NaN, of a text the characters other
\* than digits and dots are dropped, an empty rest is NaN, otherwise
\* Number(rest)
parsePrice004(raw) ==
  IF raw = NullTxt THEN JsNaN
  ELSE IF Cleaned(raw) = <<>> THEN JsNaN
  ELSE StringToNumber(Cleaned(raw))

\* Number.isFinite(amount) && amount > 0
FinitePositive(v) == v.kind = "num" /\ ~v.neg /\ v.q # <<>>

\* the Amount of the Payment: String(xrpAmount * 1_000_000) for pay-xrp,
\* an issued amount of value String(rlusdAmount) for pay-rlusd
PaymentAmount(x, op) ==
  IF op = "pay-rlusd"
  THEN [issued |-> TRUE, drops |-> NullTxt, value |-> StringOf(x)]
  ELSE [issued |-> FALSE, drops |-> StringOf(JsTimes(x, DropsPerXrp)),
        value |-> NullTxt]

\* what a request of route op makes of the price text raw: whether the
\* parsed price passes the check, and the Amount it then submits
Priced004(raw, op) ==
  [valid |-> FinitePositive(parsePrice004(raw)),
   Amount |-> PaymentAmount(parsePrice004(raw), op)]

\* the same of the price texts the listings hold
PricedTexts004 ==
  [t \in PriceTexts \cup {<<"1", "0">>, <<"2", "0">>} |->
     [op \in {"pay-xrp", "pay-rlusd"} |-> Priced004(t, op)]]

\* the price of listing nft as the request of route op reads it
PriceOf004(nft, op) ==
  IF PriceText(nft, IF op = "pay-rlusd" THEN "RLUSD" ELSE "XRP")
       \in DOMAIN PricedTexts004
  THEN PricedTexts004[PriceText(nft, IF op = "pay-rlusd" THEN "RLUSD"
                                    ELSE "XRP")][op]
  ELSE Priced004(PriceText(nft, IF op = "pay-rlusd" THEN "RLUSD"
                                ELSE "XRP"), op)

\* a row of marketplace_nfts of part_004; no_quantity: the quantity column
\* is NULL (quantity is 0 then)
Row004(sub, q, px, pr) ==
  [submission_id |-> sub, quantity |-> q, no_quantity |-> FALSE,
   sold_count |-> 0, price_xrp |-> px, price_rlusd |-> pr, minted |-> TRUE,
   sold |-> FALSE]

InitPart004 == InitListings(Row004) /\ marketplace_sell_offers = <<>>

\* requests in flight are kept in reqs; an answered request is appended
\* to payLog and its slot is free again
PayInFlight004 == Cardinality({c \in Requesters : reqs[c].pc # "idle"})

\* a request of part_004 arrives: the handler runs to its first statement
Start004(c, r) ==
  /\ reqs[c].pc = "idle"
  /\ \A d \in Requesters : d < c => reqs[d].pc # "idle"
  /\ Len(payLog) + PayInFlight004 < MaxPayCalls
  /\ reqs' = [reqs EXCEPT ![c] = r]
  /\ UNCHANGED <<orders, marketplace_sell_offers, h, rowLock, qty0, release,
                 payLog, calls, marketplace_nfts, faults, gateway,
                 marketAllCache, clock>>

\* the request arrives and the handler sends its SELECT
PayStart004(c, op, id) ==
  Start004(c, [IdleReq EXCEPT !.op = op, !.id = id, !.pc = "select"])

PayXrp004(c, id) == PayStart004(c, "pay-xrp", id)

PayRlusd004(c, id) == PayStart004(c, "pay-rlusd", id)

\* the handler answers with the rows it lists (none but for market/all)
AnswerRows004(c, code, rows) ==
  /\ payLog' = Append(payLog, [op |-> reqs[c].op, id |-> reqs[c].id,
                               res |-> code, rows |-> rows])
  /\ reqs' = [reqs EXCEPT ![c] = IdleReq]

Answer004(c, code) == AnswerRows004(c, code, <<>>)

\* the SELECT returned: 404 without a row, 400 when the parsed price is not
\* a positive number, otherwise the handler sends the quantity UPDATE; the
\* amount it will submit comes from the row it has read
PaySelect004(c) ==
  /\ reqs[c].op \in {"pay-xrp", "pay-rlusd"} /\ reqs[c].pc = "select"
  /\ IF reqs[c].id \notin DOMAIN marketplace_nfts
     THEN Answer004(c, 404)
     ELSE IF ~PriceOf004(marketplace_nfts[reqs[c].id], reqs[c].op).valid
     THEN Answer004(c, 400)
     ELSE /\ reqs' = [reqs EXCEPT
                        ![c].pc = "update",
                        ![c].rows =
                          <<PriceOf004(marketplace_nfts[reqs[c].id],
                                       reqs[c].op).Amount>>]
          /\ UNCHANGED payLog
  /\ UNCHANGED <<orders, marketplace_sell_offers, h, rowLock, qty0, release,
                 calls, marketplace_nfts, faults, gateway, marketAllCache,
                 clock>>

\* UPDATE marketplace_nfts SET sold_count = sold_count + 1,
\* quantity = quantity - 1 (a NULL quantity stays NULL); then the handler
\* sends the signing request
PayUpdate004(c) ==
  /\ reqs[c].op \in {"pay-xrp", "pay-rlusd"} /\ reqs[c].pc = "update"
  /\ marketplace_nfts' =
       IF reqs[c].id \in DOMAIN marketplace_nfts
          /\ marketplace_nfts[reqs[c].id].no_quantity
       THEN [marketplace_nfts EXCEPT ![reqs[c].id].sold_count = @ + 1]
       ELSE DecrementRow(marketplace_nfts, reqs[c].id)
  /\ reqs' = [reqs EXCEPT ![c].pc = "submit"]
  /\ UNCHANGED <<orders, marketplace_sell_offers, h, rowLock, qty0, release,
                 payLog, calls, faults, gateway, marketAllCache, clock>>

\* the gateway accepted the Payment payload: the handler returns the
\* signing link
PaySubmit004(c) ==
  /\ reqs[c].op \in {"pay-xrp", "pay-rlusd"} /\ reqs[c].pc = "submit"
  /\ gateway' = Append(gateway,
                       [caller |-> c, TransactionType |-> "Payment",
                        Amount |-> reqs[c].rows[1]])
  /\ Answer004(c, 200)
  /\ UNCHANGED <<orders, marketplace_sell_offers, h, rowLock, qty0, release,
                 calls, marketplace_nfts, faults, marketAllCache, clock>>

\* POST /api/add-nft of part_004: the body's fields go into the INSERT
\* unchecked.  q = 0 stands for a body without a quantity
AddNft004(c, sub, q) ==
  Start004(c, [IdleReq EXCEPT !.op = "add-nft", !.id = sub, !.quantity = q,
                              !.pc = "insert"])

\* the store executes the INSERT (minted true, sold false, sold_count by
\* default 0) and the handler answers
AddNftInsert004(c) ==
  /\ reqs[c].op = "add-nft" /\ reqs[c].pc = "insert"
  /\ marketplace_nfts' =
       marketplace_nfts @@
       (NextListingId :>
          [Row004(reqs[c].id, reqs[c].quantity, <<"1", "0">>, <<"2", "0">>)
             EXCEPT !.no_quantity = (reqs[c].quantity = 0)])
  /\ Answer004(c, 200)
  /\ UNCHANGED <<orders, marketplace_sell_offers, h, rowLock, qty0, release,
                 calls, faults, gateway, marketAllCache, clock>>

\* GET /api/market/all of part_004 arrives: the handler sends its UPDATE
MarketAll004(c) ==
  Start004(c, [IdleReq EXCEPT !.op = "market/all", !.pc = "mark"])

\* UPDATE marketplace_nfts SET sold = true WHERE quantity <= 0 AND
\* sold = false; then the handler sends the SELECT
MarkSold004(c) ==
  /\ reqs[c].op = "market/all" /\ reqs[c].pc = "mark"
  /\ marketplace_nfts' =
       [id \in DOMAIN marketplace_nfts |->
          LET nft == marketplace_nfts[id] IN
          IF ~nft.no_quantity /\ nft.quantity <= 0 /\ ~nft.sold
          THEN [nft EXCEPT !.sold = TRUE] ELSE nft]
  /\ reqs' = [reqs EXCEPT ![c].pc = "list"]
  /\ UNCHANGED <<orders, marketplace_sell_offers, h, rowLock, qty0, release,
                 payLog, calls, faults, gateway, marketAllCache, clock>>

\* SELECT *, GREATEST(quantity, 0) AS quantity_remaining (GREATEST skips
\* a NULL) of a row
ListedRow004(id, nft) ==
  [id |-> id, quantity |-> nft.quantity, no_quantity |-> nft.no_quantity,
   sold_count |-> nft.sold_count,
   quantity_remaining |-> IF nft.quantity > 0 THEN nft.quantity ELSE 0]

\* ... WHERE minted = true AND sold = false ORDER BY id DESC: the rows with
\* id <= k
RECURSIVE Listed004(_, _)
Listed004(tbl, k) ==
  IF k = 0 THEN <<>>
  ELSE (IF k \in DOMAIN tbl /\ tbl[k].minted /\ ~tbl[k].sold
        THEN <<ListedRow004(k, tbl[k])>> ELSE <<>>)
       \o Listed004(tbl, k - 1)

\* the SELECT returned: the handler answers its rows
List004(c) ==
  /\ reqs[c].op = "market/all" /\ reqs[c].pc = "list"
  /\ AnswerRows004(c, 200,
                   Listed004(marketplace_nfts,
                             Cardinality(DOMAIN marketplace_nfts)))
  /\ UNCHANGED <<orders, marketplace_sell_offers, h, rowLock, qty0, release,
                 calls, marketplace_nfts, faults, gateway, marketAllCache,
                 clock>>

\* a statement of the store or the signing request fails: the catch block
\* of the route answers 500; an UPDATE that was applied stays
PayFailure004(c) ==
  /\ reqs[c].pc \in {"select", "update", "submit", "insert", "mark", "list"}
  /\ faults < MaxFaults
  /\ faults' = faults + 1
  /\ Answer004(c, 500)
  /\ UNCHANGED <<orders, marketplace_sell_offers, h, rowLock, qty0, release,
                 calls, marketplace_nfts, gateway, marketAllCache, clock>>

\* the submission a new listing is published for
NewSubmission == Cardinality(NftIds) + 1

NextPart004 ==
  \E c \in Requesters :
    \/ \E id \in NftIds \cup {GhostId} : PayXrp004(c, id)
    \/ \E id \in NftIds \cup {GhostId} : PayRlusd004(c, id)
    \/ PaySelect004(c)
    \/ PayUpdate004(c)
    \/ PaySubmit004(c)
    \/ \E q \in {0, MaxQty} : AddNft004(c, NewSubmission, q)
    \/ AddNftInsert004(c)
    \/ MarketAll004(c)
    \/ MarkSold004(c)
    \/ List004(c)
    \/ PayFailure004(c)

SpecPart004 == InitPart004 /\ [][NextPart004]_vars

(***************************************************************************)
(* POST /api/list-on-marketplace and POST /api/admin/create-sell-offer     *)
(***************************************************************************)
\* length of an NFTokenID in hex characters
TokenLength == 64

Tok64 == [k \in 1..TokenLength |-> "A"]
TokShort == <<"A", "B">>

\* a TEXT value that is falsy in JS: NULL or the empty string
Missing(t) == t = NullTxt \/ t = <<>>

\* a row of marketplace_nfts with the columns the offer routes read, and
\* the submissions row joined to it (has_submission, nftoken_ids)
ListingRow(px, pr, tok, sub, ids) ==
  [quantity |-> 1, sold_count |-> 0, price_xrp |-> px, price_rlusd |-> pr,
   nftoken_id |-> tok, has_submission |-> sub, nftoken_ids |-> ids]

\* listing 1 varies in its token columns or in its primary price
InitList ==
  /\ \E px \in PriceTexts, tok \in {NullTxt, Tok64, TokShort},
        sub \in BOOLEAN, ids \in {<<>>, <<Tok64>>} :
       /\ px = <<"2", "0">> \/ (tok = Tok64 /\ sub /\ ids = <<Tok64>>)
       /\ marketplace_nfts =
            (1 :> ListingRow(px, <<"2", "0">>, tok, sub, ids) @@
             2 :> ListingRow(<<"1", "0">>, <<"2", "0">>, Tok64, TRUE,
                             <<Tok64>>))
  /\ qty0 = [id \in NftIds |-> marketplace_nfts[id].quantity]
  /\ release \in ReleasesFor(PriceTextsOf(marketplace_nfts))
  /\ orders = <<>>
  /\ marketplace_sell_offers = <<>>
  /\ h = [i \in Handlers |-> IdleHandler]
  /\ rowLock = [id \in NftIds |-> 0]
  /\ faults = 0
  /\ payLog = <<>>
  /\ calls = [c \in Callers |-> IdleCall]
  /\ gateway = <<>>
  /\ InitCatalog

\* requests are numbered in the order they reach the server
MayCall(c) ==
  /\ calls[c].pc = "idle"
  /\ IF c = 1 THEN TRUE ELSE calls[c - 1].pc # "idle"

Answer(c, code, how) ==
  calls' = [calls EXCEPT ![c].pc = "done", ![c].res = code,
                         ![c].outcome = how]

\* bodies of list-on-marketplace: no listing id, no currency, an unknown
\* listing, listing 1 in either currency
ListBodies ==
  {<<NoId, "XRP">>, <<1, NULL>>, <<1, "XRP">>, <<1, "RLUSD">>,
   <<GhostId, "XRP">>}

\* bodies of create-sell-offer
OfferBodies == {<<1, "XRP">>, <<1, "RLUSD">>, <<GhostId, "XRP">>}

\* list-on-marketplace up to its SELECT: the parameter check
ListStart(c, b) ==
  /\ MayCall(c)
  /\ LET r == [IdleCall EXCEPT !.op = "list", !.id = b[1],
                               !.currency = b[2]] IN
     calls' = [calls EXCEPT ![c] =
                 IF b[1] = NoId \/ b[2] = NULL
                 THEN [r EXCEPT !.pc = "done", !.res = 400,
                                !.outcome = "missing_params"]
                 ELSE [r EXCEPT !.pc = "select"]]
  /\ UNCHANGED <<marketplace_nfts, orders, marketplace_sell_offers, h,
                 rowLock, faults, qty0, release, payLog, gateway,
                 marketAllCache, clock, reqs>>

\* the SELECT of marketplace_nfts joined with submissions returned: 404
\* without a row, otherwise the handler keeps the row and connects to the
\* ledger
ListSelect(c) ==
  /\ calls[c].op = "list" /\ calls[c].pc = "select"
  /\ IF calls[c].id \notin DOMAIN marketplace_nfts
     THEN Answer(c, 404, "not_found")
     ELSE IF ~marketplace_nfts[calls[c].id].has_submission
     THEN Answer(c, 404, "not_found")
     ELSE calls' = [calls EXCEPT ![c].pc = "connect",
                                 ![c].nft = marketplace_nfts[calls[c].id]]
  /\ UNCHANGED <<marketplace_nfts, orders, marketplace_sell_offers, h,
                 rowLock, faults, qty0, release, payLog, gateway,
                 marketAllCache, clock, reqs>>

\* nft.nftoken_id || ids[0]
TokenOf(nft) ==
  IF ~Missing(nft.nftoken_id) THEN nft.nftoken_id
  ELSE IF nft.nftoken_ids # <<>> THEN nft.nftoken_ids[1] ELSE NullTxt

\* ListConnect without the NFTokenID check
ListConnect_NoTokenCheck(c) ==
  /\ calls[c].op = "list" /\ calls[c].pc = "connect"
  /\ Answer(c, 500, "raised")
  /\ UNCHANGED <<marketplace_nfts, orders, marketplace_sell_offers, h,
                 rowLock, faults, qty0, release, payLog, gateway,
                 marketAllCache, clock, reqs>>

\* the ledger connection is up: the NFTokenID check, then the argument of
\* axios.post is built; its blob reads the undeclared name id, so the
\* statement throws before the request is made and catch answers 500
ListConnect(c) ==
  /\ calls[c].op = "list" /\ calls[c].pc = "connect"
  /\ LET tokenId == TokenOf(calls[c].nft) IN
     IF Missing(tokenId) \/ Len(tokenId) # TokenLength
     THEN Answer(c, 400, "no_token")
     ELSE Answer(c, 500, "raised")
  /\ UNCHANGED <<marketplace_nfts, orders, marketplace_sell_offers, h,
                 rowLock, faults, qty0, release, payLog, gateway,
                 marketAllCache, clock, reqs>>

\* create-sell-offer up to its SELECT
CreateOfferStart(c, b) ==
  /\ MayCall(c)
  /\ calls' = [calls EXCEPT ![c] =
                 [IdleCall EXCEPT !.op = "create-sell-offer", !.id = b[1],
                                  !.currency = b[2], !.pc = "select"]]
  /\ UNCHANGED <<marketplace_nfts, orders, marketplace_sell_offers, h,
                 rowLock, faults, qty0, release, payLog, gateway,
                 marketAllCache, clock, reqs>>

\* the SELECT returned: 404 without a row; otherwise the payload object is
\* built, its blob reads the undeclared name marketplace_nft_id, and catch
\* answers 500
CreateOfferSelect(c) ==
  /\ calls[c].op = "create-sell-offer" /\ calls[c].pc = "select"
  /\ IF calls[c].id \notin DOMAIN marketplace_nfts
     THEN Answer(c, 404, "not_found")
     ELSE Answer(c, 500, "raised")
  /\ UNCHANGED <<marketplace_nfts, orders, marketplace_sell_offers, h,
                 rowLock, faults, qty0, release, payLog, gateway,
                 marketAllCache, clock, reqs>>

\* the store, the ledger connection or the gateway fails: catch answers 500
CallFailure(c) ==
  /\ calls[c].pc \in {"select", "connect", "persist", "submit"}
  /\ faults < MaxFaults
  /\ faults' = faults + 1
  /\ Answer(c, 500, "failed_" \o calls[c].pc)
  /\ UNCHANGED <<marketplace_nfts, orders, marketplace_sell_offers, h,
                 rowLock, qty0, release, payLog, gateway,
                 marketAllCache, clock, reqs>>

NextList ==
  \E c \in Callers :
    \/ \E b \in ListBodies : ListStart(c, b)
    \/ ListSelect(c)
    \/ ListConnect(c)
    \/ \E b \in OfferBodies : CreateOfferStart(c, b)
    \/ CreateOfferSelect(c)
    \/ CallFailure(c)

SpecList == InitList /\ [][NextList]_vars

\* a publishable listing with its two offer slots
SlotRow(ox, orl) ==
  [quantity |-> 1, sold_count |-> 0, price_xrp |-> <<"1", "0">>,
   price_rlusd |-> <<"2", "0">>, nftoken_id |-> Tok64,
   has_submission |-> TRUE, nftoken_ids |-> <<Tok64>>,
   sell_offer_index_xrp |-> ox, sell_offer_index_rlusd |-> orl]

\* the slots before any listing request: listing 1 has no offer yet, or
\* only one in the secondary currency
InitSlots ==
  /\ \E orl \in {NULL, "X2"} :
       marketplace_nfts = (1 :> SlotRow(NULL, orl) @@ 2 :> SlotRow(NULL, NULL))
  /\ qty0 = [id \in NftIds |-> marketplace_nfts[id].quantity]
  /\ release \in ReleasesFor(PriceTextsOf(marketplace_nfts))
  /\ orders = <<>>
  /\ marketplace_sell_offers = <<>>
  /\ h = [i \in Handlers |-> IdleHandler]
  /\ rowLock = [id \in NftIds |-> 0]
  /\ faults = 0
  /\ payLog = <<>>
  /\ calls = [c \in Callers |-> IdleCall]
  /\ gateway = <<>>
  /\ InitCatalog

SpecSlots == InitSlots /\ [][NextList]_vars

(***************************************************************************)
(* POST /api/list-on-marketplace of part_003                               *)
(***************************************************************************)
\* the ledger connection is up: the token is the first of the nftoken_ids
\* of the row the SELECT returned; when that row has no nftoken_id of its
\* own the handler goes on to store it, otherwise it assigns ledgerNFT,
\* which is declared by a let further down the block, and the assignment
\* throws
ListConnect003(c) ==
  /\ calls[c].op = "list" /\ calls[c].pc = "connect"
  /\ LET nft == calls[c].nft IN
     IF nft.nftoken_ids = <<>>
     THEN Answer(c, 400, "no_token")
     ELSE IF Missing(nft.nftoken_id)
     THEN calls' = [calls EXCEPT ![c].pc = "persist"]
     ELSE Answer(c, 500, "raised")
  /\ UNCHANGED <<marketplace_nfts, orders, marketplace_sell_offers, h,
                 rowLock, faults, qty0, release, payLog, gateway,
                 marketAllCache, clock, reqs>>

\* UPDATE marketplace_nfts SET nftoken_id = $1 WHERE id = $2 AND (nftoken_id
\* IS NULL OR nftoken_id = ''), committed at once: it changes the row only
\* while the row still has no nftoken_id; then the assignment to ledgerNFT
\* throws and catch answers 500
ListPersist003(c) ==
  /\ calls[c].pc = "persist"
  /\ LET nft == marketplace_nfts[calls[c].id] IN
     IF Missing(nft.nftoken_id)
     THEN /\ marketplace_nfts' =
               [marketplace_nfts EXCEPT ![calls[c].id].nftoken_id =
                                          calls[c].nft.nftoken_ids[1]]
          /\ calls' = [calls EXCEPT ![c].pc = "done", ![c].res = 500,
                                    ![c].outcome = "raised",
                                    ![c].wrote = TRUE]
     ELSE /\ Answer(c, 500, "raised")
          /\ UNCHANGED marketplace_nfts
  /\ UNCHANGED <<orders, marketplace_sell_offers, h, rowLock, faults, qty0, release,
                 payLog, gateway,
                 marketAllCache, clock, reqs>>

NextList003 ==
  \E c \in Callers :
    \/ \E b \in ListBodies : ListStart(c, b)
    \/ ListSelect(c)
    \/ ListConnect003(c)
    \/ ListPersist003(c)
    \/ CallFailure(c)

SpecList003 == InitList /\ [][NextList003]_vars

(***************************************************************************)
(* POST /api/admin/create-sell-offer of part_000                           *)
(***************************************************************************)
\* String(value) of a TEXT column value: String(null) is "null"
StringOfText(raw) == IF raw = NullTxt THEN <<"n", "u", "l", "l">> ELSE raw

\* the drops texts of the price texts the listings hold
DropsOfText ==
  [t \in PriceTexts \cup {<<"1", "0">>} |-> DropsText(t)]

\* the Amount of the offer: the text of the drops for XRP, otherwise an
\* issued amount whose value is the text of the price
AmountOf(nft, cur) ==
  IF cur = "XRP"
  THEN [issued |-> FALSE,
        drops |-> IF nft.price_xrp \in DOMAIN DropsOfText
                  THEN DropsOfText[nft.price_xrp]
                  ELSE DropsText(nft.price_xrp),
        value |-> NullTxt]
  ELSE [issued |-> TRUE, drops |-> NullTxt,
        value |-> StringOfText(nft.price_rlusd)]

\* the SELECT returned: 404 without a row, 400 without an nftoken_id,
\* otherwise the payload is built from the row read and posted
CreateOfferSelect000(c) ==
  /\ calls[c].op = "create-sell-offer" /\ calls[c].pc = "select"
  /\ IF calls[c].id \notin DOMAIN marketplace_nfts
     THEN Answer(c, 404, "not_found")
     ELSE IF Missing(marketplace_nfts[calls[c].id].nftoken_id)
     THEN Answer(c, 400, "no_token")
     ELSE calls' = [calls EXCEPT ![c].pc = "submit",
                                 ![c].nft = marketplace_nfts[calls[c].id]]
  /\ UNCHANGED <<marketplace_nfts, orders, marketplace_sell_offers, h,
                 rowLock, faults, qty0, release, payLog, gateway,
                 marketAllCache, clock, reqs>>

\* the gateway accepted the payload: the link is returned
CreateOfferSubmit000(c) ==
  /\ calls[c].pc = "submit"
  /\ gateway' =
       Append(gateway,
              [caller |-> c,
               NFTokenID |-> calls[c].nft.nftoken_id,
               Amount |-> AmountOf(calls[c].nft, calls[c].currency)])
  /\ Answer(c, 200, "link")
  /\ UNCHANGED <<marketplace_nfts, orders, marketplace_sell_offers, h,
                 rowLock, faults, qty0, release, payLog, marketAllCache, clock,
                 reqs>>

NextOffer000 ==
  \E c \in Callers :
    \/ \E b \in OfferBodies : CreateOfferStart(c, b)
    \/ CreateOfferSelect000(c)
    \/ CreateOfferSubmit000(c)
    \/ CallFailure(c)

SpecOffer000 == InitList /\ [][NextOffer000]_vars

(***************************************************************************)
(* GET /api/market/all, POST /api/market/toggle-delist and                 *)
(* POST /api/add-nft of server.js                                          *)
(***************************************************************************)
\* the variables these routes never touch
settlementVars ==
  <<orders, marketplace_sell_offers, h, rowLock, qty0, release, payLog, calls>>

\* a row of marketplace_nfts with the columns the catalog and pay routes read
MarketRow(sub, q, del, ox, orl) ==
  [submission_id |-> sub, quantity |-> q, sold_count |-> 0,
   price_xrp |-> <<"1", "0">>, price_rlusd |-> <<"2", "0">>,
   minted |-> TRUE, sold |-> FALSE, is_delisted |-> del,
   sell_offer_index_xrp |-> ox, sell_offer_index_rlusd |-> orl]

\* two published listings; listing 1 is in stock or sold out, listed or
\* delisted
InitMarket ==
  /\ \E q \in {0, MaxQty}, del \in BOOLEAN :
       marketplace_nfts =
         (1 :> MarketRow(1, q, del, "X1", NULL) @@
          2 :> MarketRow(2, 1, FALSE, NULL, "X2"))
  /\ qty0 = [id \in NftIds |-> marketplace_nfts[id].quantity]
  /\ release \in ReleasesFor(PriceTextsOf(marketplace_nfts))
  /\ orders = <<>>
  /\ marketplace_sell_offers = <<>>
  /\ h = [i \in Handlers |-> IdleHandler]
  /\ rowLock = [id \in NftIds |-> 0]
  /\ faults = 0
  /\ payLog = <<>>
  /\ calls = [c \in Callers |-> IdleCall]
  /\ gateway = <<>>
  /\ InitCatalog

\* requests are numbered in the order they reach the server
MayRequest(c) ==
  /\ reqs[c].pc = "idle"
  /\ IF c = 1 THEN TRUE ELSE reqs[c - 1].pc # "idle"

Reply(c, code, how, rows) ==
  reqs' = [reqs EXCEPT ![c].pc = "done", ![c].res = code,
                       ![c].outcome = how, ![c].payload = rows]

\* WHERE minted = true AND sold = false AND COALESCE(is_delisted,false) = false
Visible(nft) == nft.minted /\ ~nft.sold /\ ~nft.is_delisted

\* SELECT *, quantity AS quantity_remaining,
\*        (GREATEST(COALESCE(quantity,0),0)=0) AS sold_out
CatalogRow(id, nft) ==
  [id |-> id, quantity_remaining |-> nft.quantity,
   sold_out |-> (nft.quantity <= 0), is_delisted |-> nft.is_delisted]

\* the visible rows with id <= k, newest first (ids are handed out in
\* creation order)
RECURSIVE RowsFrom(_, _)
RowsFrom(tbl, k) ==
  IF k = 0 THEN <<>>
  ELSE (IF k \in DOMAIN tbl /\ Visible(tbl[k])
        THEN <<CatalogRow(k, tbl[k])>> ELSE <<>>)
       \o RowsFrom(tbl, k - 1)

SelectMarketAll(tbl) == RowsFrom(tbl, Cardinality(DOMAIN tbl))

\* the freshness test of the handler
Fresh(cache, now) == cache.has /\ now - cache.ts < MARKET_ALL_TTL_MS

\* ReadStart without the age test: any snapshot is served
ReadStart_NoExpiry(c) ==
  /\ MayRequest(c)
  /\ LET r == [IdleReq EXCEPT !.op = "market/all", !.now = clock] IN
     IF marketAllCache.has
     THEN reqs' = [reqs EXCEPT ![c] =
                     [r EXCEPT !.pc = "done", !.res = 200, !.hit = TRUE,
                               !.from = marketAllCache.by,
                               !.payload = marketAllCache.data,
                               !.outcome = "cached"]]
     ELSE reqs' = [reqs EXCEPT ![c] = [r EXCEPT !.pc = "query"]]
  /\ UNCHANGED <<settlementVars, marketplace_nfts, faults, gateway,
                 marketAllCache, clock>>

\* the handler reads the clock and answers from the snapshot when it is
\* fresh; otherwise it sends the SELECT
ReadStart(c) ==
  /\ MayRequest(c)
  /\ LET r == [IdleReq EXCEPT !.op = "market/all", !.now = clock] IN
     IF Fresh(marketAllCache, clock)
     THEN reqs' = [reqs EXCEPT ![c] =
                     [r EXCEPT !.pc = "done", !.res = 200, !.hit = TRUE,
                               !.from = marketAllCache.by,
                               !.payload = marketAllCache.data,
                               !.outcome = "cached"]]
     ELSE reqs' = [reqs EXCEPT ![c] = [r EXCEPT !.pc = "query"]]
  /\ UNCHANGED <<settlementVars, marketplace_nfts, faults, gateway,
                 marketAllCache, clock>>

\* the store executes the SELECT
ReadQuery(c) ==
  /\ reqs[c].op = "market/all" /\ reqs[c].pc = "query"
  /\ reqs' = [reqs EXCEPT ![c].pc = "store",
                          ![c].rows = SelectMarketAll(marketplace_nfts)]
  /\ UNCHANGED <<settlementVars, marketplace_nfts, faults, gateway,
                 marketAllCache, clock>>

\* the result reaches the handler: it replaces the snapshot, stamped with
\* the time read at the start, and answers
ReadStore(c) ==
  /\ reqs[c].op = "market/all" /\ reqs[c].pc = "store"
  /\ marketAllCache' = [ts |-> reqs[c].now, has |-> TRUE,
                        data |-> reqs[c].rows, by |-> c]
  /\ Reply(c, 200, "computed", reqs[c].rows)
  /\ UNCHANGED <<settlementVars, marketplace_nfts, faults, gateway, clock>>

\* the SELECT fails: catch answers an empty list with status 200 and leaves
\* the snapshot alone
ReadFailure(c) ==
  /\ reqs[c].op = "market/all" /\ reqs[c].pc = "query"
  /\ faults < MaxFaults
  /\ faults' = faults + 1
  /\ Reply(c, 200, "failed_query", <<>>)
  /\ UNCHANGED <<settlementVars, marketplace_nfts, gateway, marketAllCache,
                 clock>>

\* toggle-delist up to its UPDATE: submission_id must be a finite number
\* (id NoId stands for a body without one)
ToggleStart(c, sub, delist) ==
  /\ MayRequest(c)
  /\ LET r == [IdleReq EXCEPT !.op = "toggle-delist", !.id = sub,
                              !.delist = delist] IN
     IF sub = NoId
     THEN reqs' = [reqs EXCEPT ![c] =
                     [r EXCEPT !.pc = "done", !.res = 400,
                               !.outcome = "invalid"]]
     ELSE reqs' = [reqs EXCEPT ![c] = [r EXCEPT !.pc = "update"]]
  /\ UNCHANGED <<settlementVars, marketplace_nfts, faults, gateway,
                 marketAllCache, clock>>

\* UPDATE marketplace_nfts SET is_delisted=$1 WHERE submission_id=$2
SetDelisted(tbl, sub, delist) ==
  [id \in DOMAIN tbl |->
     IF tbl[id].submission_id = sub
     THEN [tbl[id] EXCEPT !.is_delisted = delist] ELSE tbl[id]]

\* a row the UPDATE is to write is locked by an open transaction
HeldRow(sub) ==
  \E id \in DOMAIN marketplace_nfts \cap DOMAIN rowLock :
    marketplace_nfts[id].submission_id = sub /\ rowLock[id] # 0

\* the store executes the UPDATE; it waits while a transaction holds the
\* lock of a row of the submission (SELECT ... FOR UPDATE of a webhook)
ToggleUpdate(c) ==
  /\ reqs[c].op = "toggle-delist" /\ reqs[c].pc = "update"
  /\ ~HeldRow(reqs[c].id)
  /\ marketplace_nfts' =
       SetDelisted(marketplace_nfts, reqs[c].id, reqs[c].delist)
  /\ reqs' = [reqs EXCEPT ![c].pc = "clear"]
  /\ UNCHANGED <<settlementVars, faults, gateway, marketAllCache, clock>>

\* the UPDATE has returned: the snapshot is cleared and the route answers
ToggleClear(c) ==
  /\ reqs[c].op = "toggle-delist" /\ reqs[c].pc = "clear"
  /\ marketAllCache' = EmptyCache
  /\ Reply(c, 200, "ok", <<>>)
  /\ UNCHANGED <<settlementVars, marketplace_nfts, faults, gateway, clock>>

\* Number(quantity || 1); q = 0 stands for a body without a quantity
AddQuantity(q) == IF q = 0 THEN 1 ELSE q

\* add-nft up to its INSERT: the required-fields check
AddNftStart(c, sub, q) ==
  /\ MayRequest(c)
  /\ LET r == [IdleReq EXCEPT !.op = "add-nft", !.id = sub,
                              !.quantity = q] IN
     IF sub = NoId
     THEN reqs' = [reqs EXCEPT ![c] =
                     [r EXCEPT !.pc = "done", !.res = 400,
                               !.outcome = "missing_fields"]]
     ELSE reqs' = [reqs EXCEPT ![c] = [r EXCEPT !.pc = "insert"]]
  /\ UNCHANGED <<settlementVars, marketplace_nfts, faults, gateway,
                 marketAllCache, clock>>

\* the store executes the INSERT (no unique index can conflict)
AddNftInsert(c) ==
  /\ reqs[c].op = "add-nft" /\ reqs[c].pc = "insert"
  /\ marketplace_nfts' =
       marketplace_nfts @@
       (NextListingId :>
          MarketRow(reqs[c].id, AddQuantity(reqs[c].quantity), FALSE,
                    NULL, NULL))
  /\ reqs' = [reqs EXCEPT ![c].pc = "respond"]
  /\ UNCHANGED <<settlementVars, faults, gateway, marketAllCache, clock>>

\* the INSERT has returned: the route answers; the snapshot is not touched
AddNftDone(c) ==
  /\ reqs[c].op = "add-nft" /\ reqs[c].pc = "respond"
  /\ Reply(c, 200, "ok", <<>>)
  /\ UNCHANGED <<settlementVars, marketplace_nfts, faults, gateway,
                 marketAllCache, clock>>

\* the store fails the statement of a toggle-delist or add-nft request:
\* catch answers 500
MutationFailure(c) ==
  /\ reqs[c].pc \in {"update", "insert"}
  /\ faults < MaxFaults
  /\ faults' = faults + 1
  /\ Reply(c, 500, "failed_" \o reqs[c].pc, <<>>)
  /\ UNCHANGED <<settlementVars, marketplace_nfts, gateway, marketAllCache,
                 clock>>

\* time passes: to the last millisecond before a multiple of the time to
\* live, then onto the multiple
Tick ==
  /\ clock < MaxClock * MARKET_ALL_TTL_MS
  /\ clock' = IF clock % MARKET_ALL_TTL_MS = 0
              THEN clock + MARKET_ALL_TTL_MS - 1 ELSE clock + 1
  /\ UNCHANGED <<settlementVars, marketplace_nfts, faults, gateway,
                 marketAllCache, reqs>>

NextMarket ==
  \/ \E c \in Requesters :
       \/ ReadStart(c)
       \/ ReadQuery(c)
       \/ ReadStore(c)
       \/ ReadFailure(c)
       \/ \E sub \in {NoId, 1}, delist \in BOOLEAN : ToggleStart(c, sub, delist)
       \/ ToggleUpdate(c)
       \/ ToggleClear(c)
       \/ \E sub \in {NoId, NewSubmission}, q \in {0, MaxQty} :
            AddNftStart(c, sub, q)
       \/ AddNftInsert(c)
       \/ AddNftDone(c)
       \/ MutationFailure(c)
  \/ Tick

SpecMarket == InitMarket /\ [][NextMarket]_vars

\* catalog reads against toggle-delist, the mutation that clears the
\* snapshot
NextRace ==
  \/ \E c \in Requesters :
       \/ ReadStart(c)
       \/ ReadQuery(c)
       \/ ReadStore(c)
       \/ ReadFailure(c)
       \/ \E sub \in {NoId, 1}, delist \in BOOLEAN : ToggleStart(c, sub, delist)
       \/ ToggleUpdate(c)
       \/ ToggleClear(c)
       \/ MutationFailure(c)
  \/ Tick

SpecRace == InitMarket /\ [][NextRace]_vars

(***************************************************************************)
(* POST /api/add-nft, GET /api/market/all and toggle-delist of part_000    *)
(***************************************************************************)
\* the text the driver returns for a bigint
RECURSIVE Int8Text(_)
Int8Text(n) ==
  IF n < 10 THEN <<CHOOSE c \in Digits : DigitVal(c) = n>>
  ELSE Int8Text(n \div 10) \o Int8Text(n % 10)

\* SELECT COUNT(*) FROM marketplace_nfts m2 WHERE m2.submission_id = $sub
\* AND m2.sold = false AND COALESCE(m2.is_delisted, false) = false
Unsold000(tbl, sub) ==
  Cardinality({id \in DOMAIN tbl :
                 /\ tbl[id].submission_id = sub
                 /\ ~tbl[id].sold /\ ~tbl[id].is_delisted})

\* SELECT *, (SELECT COUNT(*) ...) AS quantity_remaining,
\*        (GREATEST(COALESCE(quantity,0),0)=0) AS sold_out
CatalogRow000(id, tbl) ==
  [id |-> id,
   quantity_remaining |-> Int8Text(Unsold000(tbl, tbl[id].submission_id)),
   sold_out |-> (tbl[id].quantity <= 0), is_delisted |-> tbl[id].is_delisted]

\* the visible rows with id <= k, newest first
RECURSIVE RowsFrom000(_, _)
RowsFrom000(tbl, k) ==
  IF k = 0 THEN <<>>
  ELSE (IF k \in DOMAIN tbl /\ Visible(tbl[k])
        THEN <<CatalogRow000(k, tbl)>> ELSE <<>>)
       \o RowsFrom000(tbl, k - 1)

\* the store executes the SELECT of market/all
ReadQuery000(c) ==
  /\ reqs[c].op = "market/all" /\ reqs[c].pc = "query"
  /\ reqs' = [reqs EXCEPT ![c].pc = "store",
                          ![c].rows =
                            RowsFrom000(marketplace_nfts,
                                        Cardinality(DOMAIN marketplace_nfts))]
  /\ UNCHANGED <<settlementVars, marketplace_nfts, faults, gateway,
                 marketAllCache, clock>>

\* add-nft up to its SELECT of the submission: the submission_id check
AddNftStart000(c, sub) ==
  /\ MayRequest(c)
  /\ LET r == [IdleReq EXCEPT !.op = "add-nft", !.id = sub] IN
     IF sub = NoId
     THEN reqs' = [reqs EXCEPT ![c] =
                     [r EXCEPT !.pc = "done", !.res = 400,
                               !.outcome = "missing_fields"]]
     ELSE reqs' = [reqs EXCEPT ![c] = [r EXCEPT !.pc = "select"]]
  /\ UNCHANGED <<settlementVars, marketplace_nfts, faults, gateway,
                 marketAllCache, clock>>

\* SELECT ..., batch_qty AS quantity FROM submissions WHERE id = $1
\* returned: 404 without a row; otherwise qty = Number(s.quantity || 1) rows
\* are to be inserted.  found and q are the submission the creator backend
\* stored (q = 0: batch_qty is NULL or 0)
AddNftSelect000(c, found, q) ==
  /\ reqs[c].op = "add-nft" /\ reqs[c].pc = "select"
  /\ IF ~found
     THEN Reply(c, 404, "not_found", <<>>)
     ELSE reqs' = [reqs EXCEPT ![c].pc = "insert",
                               ![c].quantity = AddQuantity(q)]
  /\ UNCHANGED <<settlementVars, marketplace_nfts, faults, gateway,
                 marketAllCache, clock>>

\* one INSERT of the loop: a row of quantity 1 for the submission, minted;
\* after the last one the handler goes on to the sell-offer block
AddNftInsert000(c) ==
  /\ reqs[c].op = "add-nft" /\ reqs[c].pc = "insert"
  /\ marketplace_nfts' =
       marketplace_nfts @@
       (NextListingId :> Row000(reqs[c].id, 1, <<"1", "0">>, <<"2", "0">>))
  /\ rowLock' = rowLock @@ (NextListingId :> 0)
  /\ reqs' = [reqs EXCEPT ![c].quantity = @ - 1,
                          ![c].pc = IF reqs[c].quantity = 1 THEN "offers"
                                    ELSE "insert"]
  /\ UNCHANGED <<orders, marketplace_sell_offers, h, qty0, release, payLog,
                 calls, faults, gateway, marketAllCache, clock>>

\* the sell-offer block has run (it writes sell_offer_index_xrp and
\* sell_offer_index_rlusd only, which no route modelled here reads, and its
\* errors are caught inside): the snapshot is cleared and the route answers
AddNftDone000(c) ==
  /\ reqs[c].op = "add-nft" /\ reqs[c].pc = "offers"
  /\ marketAllCache' = EmptyCache
  /\ Reply(c, 200, "ok", <<>>)
  /\ UNCHANGED <<settlementVars, marketplace_nfts, faults, gateway, clock>>

\* the SELECT or an INSERT of add-nft fails: catch answers 500; the rows
\* inserted before stay and the snapshot is not cleared
AddNftFailure000(c) ==
  /\ reqs[c].op = "add-nft" /\ reqs[c].pc \in {"select", "insert"}
  /\ faults < MaxFaults
  /\ faults' = faults + 1
  /\ Reply(c, 500, "failed_" \o reqs[c].pc, <<>>)
  /\ UNCHANGED <<settlementVars, marketplace_nfts, gateway, marketAllCache,
                 clock>>

\* deliveries and requests received so far
Invocations000 ==
  Cardinality({i \in Handlers : h[i].pc # "idle"})
    + Cardinality({c \in Requesters : reqs[c].pc # "idle"})

MayReceive000 == Invocations000 < MaxInvocations

NextPart000 ==
  \/ \E i \in Handlers :
       \/ \E e \in EventsPart000 : MayReceive000 /\ Receive000(i, e)
       \/ LockNft(i)
       \/ Rollback(i)
       \/ InsertOrder000(i)
       \/ Decrement(i)
       \/ Commit(i)
       \/ Failure000(i)
       \/ Catch(i)
       \/ CatchFailure(i)
  \/ \E c \in Requesters :
       \/ MayReceive000 /\ ReadStart(c)
       \/ ReadQuery000(c)
       \/ ReadStore(c)
       \/ ReadFailure(c)
       \/ \E delist \in BOOLEAN :
            MayReceive000 /\ ToggleStart(c, 1, delist)
       \/ ToggleUpdate(c)
       \/ ToggleClear(c)
       \/ MutationFailure(c)
       \/ \E sub \in {NoId, NewSubmission} :
            MayReceive000 /\ AddNftStart000(c, sub)
       \/ \E found \in BOOLEAN, q \in {0, MaxQty} : AddNftSelect000(c, found, q)
       \/ AddNftInsert000(c)
       \/ AddNftDone000(c)
       \/ AddNftFailure000(c)
  \/ Tick

SpecPart000 == InitPart000 /\ [][NextPart000]_vars

(***************************************************************************)
(* GET /api/market/all next to the webhook of server.js                    *)
(***************************************************************************)
\* the confirmations of a purchase of listing 1 the blob of pay-xrp or an
\* offer-echoing blob leads to
PurchasesServer ==
  {e \in EventsServer :
     /\ e.signed /\ e.dispatched
     /\ e.TransactionType = "NFTokenAcceptOffer"
     /\ e.txid = "t1" /\ e.nft_id = 1 /\ e.account # NULL}

NextMarketBuy ==
  \/ \E c \in Requesters :
       \/ ReadStart(c)
       \/ ReadQuery(c)
       \/ ReadStore(c)
       \/ ReadFailure(c)
  \/ \E i \in Handlers :
       \/ \E e \in PurchasesServer : Receive(i, e)
       \/ MarkUsed(i)
       \/ LockNft(i)
       \/ Rollback(i)
       \/ InsertOrder(i)
       \/ Decrement(i)
       \/ Commit(i)
       \/ StoreFailure(i)
       \/ Catch(i)
       \/ CatchFailure(i)
  \/ Tick

SpecMarketBuy == InitMarket /\ [][NextMarketBuy]_vars

(***************************************************************************)
(* POST /api/orders/redeem of server.js                                    *)
(***************************************************************************)
OtherWallet == "rOther"

\* a committed order with the columns redeem reads and writes
PaidOrder(nft, wallet, status, email) ==
  [marketplace_nft_id |-> nft, buyer_wallet |-> wallet,
   buyer_email |-> email, price |-> NumericIn(<<"1", "0">>),
   currency |-> "XRP", status |-> status, xumm_payload_uuid |-> NULL,
   tx_hash |-> "t1"]

\* two orders the webhook recorded; the first is paid, already redeemed or
\* in a later status
InitRedeem ==
  /\ marketplace_nfts =
       (1 :> MarketRow(1, 1, FALSE, "X1", NULL) @@
        2 :> MarketRow(2, 1, FALSE, NULL, "X2"))
  /\ qty0 = [id \in NftIds |-> marketplace_nfts[id].quantity + 1]
  /\ release \in ReleasesFor(PriceTextsOf(marketplace_nfts))
  /\ \E st \in {"PAID", "REDEEM_REQUESTED", "SHIPPED"} :
       orders =
         << PaidOrder(1, Buyer, st, IF st = "PAID" THEN NULL ELSE "a@x"),
            [PaidOrder(2, OtherWallet, "PAID", NULL)
               EXCEPT !.tx_hash = "t2"] >>
  /\ marketplace_sell_offers = <<>>
  /\ h = [i \in Handlers |-> IdleHandler]
  /\ rowLock = [id \in NftIds |-> 0]
  /\ faults = 0
  /\ payLog = <<>>
  /\ calls = [c \in Callers |-> IdleCall]
  /\ gateway = <<>>
  /\ InitCatalog

\* bodies: order_id, wallet, email (NoId / NULL: the field is absent)
RedeemBodies ==
  { <<1, Buyer, "a@x">>, <<1, Buyer, "b@x">>, <<1, OtherWallet, "b@x">>,
    <<2, Buyer, "b@x">>, <<GhostId, Buyer, "a@x">>,
    <<NoId, Buyer, "a@x">>, <<1, NULL, "a@x">>, <<1, Buyer, NULL>> }

\* the required-fields check
RedeemStart(c, b) ==
  /\ MayRequest(c)
  /\ LET r == [IdleReq EXCEPT !.op = "redeem", !.id = b[1],
                              !.wallet = b[2], !.email = b[3]] IN
     IF b[1] = NoId \/ b[2] = NULL \/ b[3] = NULL
     THEN reqs' = [reqs EXCEPT ![c] =
                     [r EXCEPT !.pc = "done", !.res = 400,
                               !.outcome = "missing_fields"]]
     ELSE reqs' = [reqs EXCEPT ![c] = [r EXCEPT !.pc = "update"]]
  /\ UNCHANGED <<marketplace_nfts, orders, marketplace_sell_offers, h,
                 rowLock, faults, qty0, release, payLog, calls, gateway,
                 marketAllCache, clock>>

\* WHERE id=$2 AND buyer_wallet=$3 AND status='PAID'
Redeemable(tbl, id, wallet) ==
  /\ id \in 1..Len(tbl)
  /\ tbl[id].buyer_wallet = wallet
  /\ tbl[id].status = "PAID"

\* RedeemUpdate without the status test in its WHERE clause
RedeemUpdate_AnyStatus(c) ==
  /\ reqs[c].op = "redeem" /\ reqs[c].pc = "update"
  /\ LET id == reqs[c].id IN
     IF id \in 1..Len(orders) /\ orders[id].buyer_wallet = reqs[c].wallet
     THEN /\ orders' = [orders EXCEPT ![id].status = "REDEEM_REQUESTED",
                                      ![id].buyer_email = reqs[c].email]
          /\ reqs' = [reqs EXCEPT ![c].pc = "respond", ![c].rows = <<id>>]
     ELSE /\ reqs' = [reqs EXCEPT ![c].pc = "respond"]
          /\ UNCHANGED orders
  /\ UNCHANGED <<marketplace_nfts, marketplace_sell_offers, h, rowLock,
                 faults, qty0, release, payLog, calls, gateway, marketAllCache, clock>>

\* the store executes UPDATE orders SET status='REDEEM_REQUESTED',
\* buyer_email=$1 WHERE ... RETURNING id
RedeemUpdate(c) ==
  /\ reqs[c].op = "redeem" /\ reqs[c].pc = "update"
  /\ LET id == reqs[c].id IN
     IF Redeemable(orders, id, reqs[c].wallet)
     THEN /\ orders' = [orders EXCEPT ![id].status = "REDEEM_REQUESTED",
                                      ![id].buyer_email = reqs[c].email]
          /\ reqs' = [reqs EXCEPT ![c].pc = "respond", ![c].rows = <<id>>]
     ELSE /\ reqs' = [reqs EXCEPT ![c].pc = "respond"]
          /\ UNCHANGED orders
  /\ UNCHANGED <<marketplace_nfts, marketplace_sell_offers, h, rowLock,
                 faults, qty0, release, payLog, calls, gateway, marketAllCache, clock>>

\* the rows test and the answer
RedeemDone(c) ==
  /\ reqs[c].op = "redeem" /\ reqs[c].pc = "respond"
  /\ IF reqs[c].rows = <<>>
     THEN Reply(c, 400, "invalid_or_redeemed", <<>>)
     ELSE Reply(c, 200, "ok", <<>>)
  /\ UNCHANGED <<marketplace_nfts, orders, marketplace_sell_offers, h,
                 rowLock, faults, qty0, release, payLog, calls, gateway,
                 marketAllCache, clock>>

\* the store fails the UPDATE: the handler has no try/catch, the rejection
\* is not handled and the request is never answered
RedeemFailure(c) ==
  /\ reqs[c].op = "redeem" /\ reqs[c].pc = "update"
  /\ faults < MaxFaults
  /\ faults' = faults + 1
  /\ reqs' = [reqs EXCEPT ![c].pc = "done", ![c].outcome = "unhandled"]
  /\ UNCHANGED <<marketplace_nfts, orders, marketplace_sell_offers, h,
                 rowLock, qty0, release, payLog, calls, gateway, marketAllCache,
                 clock>>

NextRedeem ==
  \E c \in Requesters :
    \/ \E b \in RedeemBodies : RedeemStart(c, b)
    \/ RedeemUpdate(c)
    \/ RedeemDone(c)
    \/ RedeemFailure(c)

SpecRedeem == InitRedeem /\ [][NextRedeem]_vars

(***************************************************************************)
(* POST /api/market/pay-xrp and pay-rlusd of server.js                     *)
(***************************************************************************)
PayOps == {"pay-xrp", "pay-rlusd"}

\* the route up to its SELECT (id NoId: a body without id, sent as NULL)
PayStart(c, op, id) ==
  /\ MayRequest(c)
  /\ reqs' = [reqs EXCEPT ![c] =
                [IdleReq EXCEPT !.op = op, !.id = id, !.pc = "select"]]
  /\ UNCHANGED <<settlementVars, marketplace_nfts, faults, gateway,
                 marketAllCache, clock>>

\* the offer index the route reads from the listing row
OfferColumn(nft, op) ==
  IF op = "pay-xrp" THEN nft.sell_offer_index_xrp
  ELSE nft.sell_offer_index_rlusd

\* PaySelect without the test of the offer index
PaySelect_NoOfferCheck(c) ==
  /\ reqs[c].op \in PayOps /\ reqs[c].pc = "select"
  /\ IF reqs[c].id \notin DOMAIN marketplace_nfts
     THEN Reply(c, 404, "not_found", <<>>)
     ELSE reqs' = [reqs EXCEPT ![c].pc = "submit",
                     ![c].rows =
                       <<OfferColumn(marketplace_nfts[reqs[c].id],
                                     reqs[c].op)>>]
  /\ UNCHANGED <<settlementVars, marketplace_nfts, faults, gateway,
                 marketAllCache, clock>>

\* the SELECT returned: 404 without a row, 400 without an offer index for
\* the route's currency, otherwise the payload goes to the gateway
PaySelect(c) ==
  /\ reqs[c].op \in PayOps /\ reqs[c].pc = "select"
  /\ IF reqs[c].id \notin DOMAIN marketplace_nfts
     THEN Reply(c, 404, "not_found", <<>>)
     ELSE LET x == OfferColumn(marketplace_nfts[reqs[c].id], reqs[c].op) IN
          IF x = NULL \/ x = ""
          THEN Reply(c, 400, "no_offer", <<>>)
          ELSE reqs' = [reqs EXCEPT ![c].pc = "submit", ![c].rows = <<x>>]
  /\ UNCHANGED <<settlementVars, marketplace_nfts, faults, gateway,
                 marketAllCache, clock>>

\* the gateway accepted the NFTokenAcceptOffer payload: the route answers
\* with the signing link
PaySubmit(c) ==
  /\ reqs[c].op \in PayOps /\ reqs[c].pc = "submit"
  /\ gateway' = Append(gateway,
                       [caller |-> c, NFTokenSellOffer |-> reqs[c].rows[1],
                        nft_id |-> reqs[c].id])
  /\ Reply(c, 200, "link", <<>>)
  /\ UNCHANGED <<settlementVars, marketplace_nfts, faults, marketAllCache,
                 clock>>

\* the store or the gateway fails: catch answers 500
PayFailure(c) ==
  /\ reqs[c].op \in PayOps /\ reqs[c].pc \in {"select", "offer", "submit"}
  /\ faults < MaxFaults
  /\ faults' = faults + 1
  /\ Reply(c, 500, "failed_" \o reqs[c].pc, <<>>)
  /\ UNCHANGED <<settlementVars, marketplace_nfts, gateway, marketAllCache,
                 clock>>

NextPay ==
  \E c \in Requesters :
    \/ \E op \in PayOps, id \in NftIds \cup {NoId, GhostId} :
         PayStart(c, op, id)
    \/ PaySelect(c)
    \/ PaySubmit(c)
    \/ PayFailure(c)

SpecPay == InitMarket /\ [][NextPay]_vars

(***************************************************************************)
(* POST /api/market/pay-xrp of part_003                                    *)
(***************************************************************************)
\* the listings of InitMarket with no offer row, an open one, a used one or
\* one without a status for listing 1
InitPay003 ==
  /\ marketplace_nfts =
       (1 :> MarketRow(1, 1, FALSE, "X1", NULL) @@
        2 :> MarketRow(2, 1, FALSE, NULL, "X2"))
  /\ qty0 = [id \in NftIds |-> marketplace_nfts[id].quantity]
  /\ release \in ReleasesFor(PriceTextsOf(marketplace_nfts))
  /\ orders = <<>>
  /\ marketplace_sell_offers \in
       {<<>>, <<OfferX1>>, <<[OfferX1 EXCEPT !.status = "USED"]>>,
        <<[OfferX1 EXCEPT !.status = NULL]>>}
  /\ h = [i \in Handlers |-> IdleHandler]
  /\ rowLock = [id \in NftIds |-> 0]
  /\ faults = 0
  /\ payLog = <<>>
  /\ calls = [c \in Callers |-> IdleCall]
  /\ gateway = <<>>
  /\ InitCatalog

\* the listing SELECT returned: 404 without a row, otherwise pay-xrp asks
\* for the open offers and pay-rlusd reads the column
PaySelect003(c) ==
  /\ reqs[c].op \in PayOps /\ reqs[c].pc = "select"
  /\ IF reqs[c].id \notin DOMAIN marketplace_nfts
     THEN Reply(c, 404, "not_found", <<>>)
     ELSE IF reqs[c].op = "pay-xrp"
     THEN reqs' = [reqs EXCEPT ![c].pc = "offer"]
     ELSE LET x == marketplace_nfts[reqs[c].id].sell_offer_index_rlusd IN
          IF x = NULL \/ x = ""
          THEN Reply(c, 400, "no_offer", <<>>)
          ELSE reqs' = [reqs EXCEPT ![c].pc = "submit", ![c].rows = <<x>>]
  /\ UNCHANGED <<settlementVars, marketplace_nfts, faults, gateway,
                 marketAllCache, clock>>

\* SELECT sell_offer_index FROM marketplace_sell_offers WHERE
\* marketplace_nft_id = $1 AND currency = 'XRP' AND
\* COALESCE(status,'OPEN') = 'OPEN' ORDER BY created_at ASC LIMIT 1: a row
\* without a status counts as open
OpenXrpOffers(tbl, id) ==
  SelectSeq(tbl, LAMBDA o : /\ o.marketplace_nft_id = id
                            /\ o.currency = "XRP"
                            /\ o.status \in {"OPEN", NULL})

\* the offer SELECT returned: 400 without an open offer
PayOffer003(c) ==
  /\ reqs[c].op = "pay-xrp" /\ reqs[c].pc = "offer"
  /\ LET open == OpenXrpOffers(marketplace_sell_offers, reqs[c].id) IN
     IF open = <<>>
     THEN Reply(c, 400, "no_offer", <<>>)
     ELSE reqs' = [reqs EXCEPT ![c].pc = "submit",
                               ![c].rows = <<open[1].sell_offer_index>>]
  /\ UNCHANGED <<settlementVars, marketplace_nfts, faults, gateway,
                 marketAllCache, clock>>

NextPay003 ==
  \E c \in Requesters :
    \/ \E op \in PayOps, id \in NftIds \cup {NoId, GhostId} :
         PayStart(c, op, id)
    \/ PaySelect003(c)
    \/ PayOffer003(c)
    \/ PaySubmit(c)
    \/ PayFailure(c)

SpecPay003 == InitPay003 /\ [][NextPay003]_vars

(***************************************************************************)
(* Vocabulary of the properties                                            *)
(***************************************************************************)
Started == {i \in Handlers : h[i].pc # "idle"}
Done == {i \in Handlers : h[i].pc = "done"}
Quiescent == Started = Done

\* a confirmation of a purchase that carries what the reconciler needs:
\* signed, dispatched, a transaction id, a listing id and the buyer
IsPurchase(e) ==
  /\ e.signed /\ e.dispatched
  /\ e.TransactionType = "NFTokenAcceptOffer"
  /\ e.txid # NULL /\ e.nft_id # NoId /\ e.account # NULL

\* the settlement currency the delivered amount shows
Classified(e) == IF e.delivered_amount = "issued" THEN "RLUSD" ELSE "XRP"

\* the listing has a positive price in the currency the payment was made in
HasValidPrice(e) ==
  /\ e.nft_id \in DOMAIN marketplace_nfts
  /\ IsPositive(NumericIn(PriceText(marketplace_nfts[e.nft_id], Classified(e))))

\* a purchase confirmation the handler of server.js can settle: it also
\* echoes, in its blob, the currency the payment was made in
IsValid(e) ==
  /\ IsPurchase(e)
  /\ HasValidPrice(e)
  /\ e.currency = Classified(e)

OrdersOf(id) == {k \in 1..Len(orders) : orders[k].marketplace_nft_id = id}
OrdersWithTx(tx) == {k \in 1..Len(orders) : orders[k].tx_hash = tx}

TxIds == {"t1", "t2"}

(***************************************************************************)
(* Confirmations whose metadata belongs to the other kind of transaction   *)
(***************************************************************************)
\* an offer-creation confirmation that echoes a listing id and an offer
\* index the way a purchase does, a plain one, a purchase confirmation that
\* echoes the metadata of an offer creation, and a plain one
TypedEvents ==
  { Payload(TRUE, TRUE, "NFTokenCreateOffer", "t3", "u3", 1, "rCreator",
            "XRP", "X1", "drops", 1, "N1", "X2"),
    OfferCreated(2, "N2", "X2", "RLUSD"),
    Payload(TRUE, TRUE, "NFTokenAcceptOffer", "t1", "u1", 1, Buyer, "XRP",
            "X1", "drops", 2, "N2", "X2"),
    Purchase(1, "t2", "u2", "XRP", NULL, "drops") }

\* server.js
NextTyped ==
  \E i \in Handlers :
    \/ \E e \in TypedEvents : Receive(i, e)
    \/ SaveSellOffer(i)
    \/ MarkUsed(i)
    \/ LockNft(i)
    \/ Rollback(i)
    \/ InsertOrder(i)
    \/ Decrement(i)
    \/ Commit(i)
    \/ StoreFailure(i)
    \/ Catch(i)
    \/ CatchFailure(i)

SpecTyped == Init /\ [][NextTyped]_vars

\* part_003
NextTyped003 ==
  \E i \in Handlers :
    \/ \E e \in TypedEvents : Receive003(i, e)
    \/ FetchTx003(i)
    \/ SaveSellOffer003(i)
    \/ LockNft(i)
    \/ Rollback(i)
    \/ InsertOrder(i)
    \/ Decrement003(i)
    \/ MarkUsed003(i)
    \/ Commit003(i)
    \/ Failure003(i)
    \/ Catch003(i)
    \/ CatchFailure003(i)

SpecTyped003 == Init /\ [][NextTyped003]_vars

\* part_000
NextTyped000 ==
  \E i \in Handlers :
    \/ \E e \in TypedEvents : Receive000(i, e)
    \/ LockNft(i)
    \/ Rollback(i)
    \/ InsertOrder000(i)
    \/ Decrement(i)
    \/ Commit(i)
    \/ Failure000(i)
    \/ Catch(i)
    \/ CatchFailure(i)

SpecTyped000 == InitPart000 /\ [][NextTyped000]_vars

(***************************************************************************)
(* Purchases that carry the offer index of another listing (part_003)      *)
(***************************************************************************)
\* listing 2 bought with the index of listing 1's offer in the blob, and
\* listing 1 bought with its own
CrossPurchases ==
  { Purchase(2, "t1", "u1", "XRP", "X1", "drops"),
    Purchase(1, "t2", "u2", "XRP", "X1", "drops") }

NextCross003 ==
  \E i \in Handlers :
    \/ \E e \in CrossPurchases : Receive003(i, e)
    \/ FetchTx003(i)
    \/ LockNft(i)
    \/ Rollback(i)
    \/ InsertOrder(i)
    \/ Decrement003(i)
    \/ MarkUsed003(i)
    \/ Commit003(i)
    \/ Failure003(i)
    \/ Catch003(i)
    \/ CatchFailure003(i)

SpecCross003 == Init /\ [][NextCross003]_vars

(***************************************************************************)
(* Initiate-purchase while confirmations are processed                     *)
(***************************************************************************)
\* a purchase of listing 1 through its XRP offer, and one in the secondary
\* currency that echoes no offer index
PurchasesPay ==
  { Purchase(1, "t1", "u1", "XRP", "X1", "drops"),
    Purchase(1, "t2", "u2", "RLUSD", NULL, "issued") }

\* server.js
NextPayBuy ==
  \/ \E c \in Requesters :
       \/ \E op \in PayOps, id \in NftIds : PayStart(c, op, id)
       \/ PaySelect(c)
       \/ PaySubmit(c)
       \/ PayFailure(c)
  \/ \E i \in Handlers :
       \/ \E e \in PurchasesPay : Receive(i, e)
       \/ MarkUsed(i)
       \/ LockNft(i)
       \/ Rollback(i)
       \/ InsertOrder(i)
       \/ Decrement(i)
       \/ Commit(i)
       \/ StoreFailure(i)
       \/ Catch(i)
       \/ CatchFailure(i)

SpecPayBuy == InitMarket /\ [][NextPayBuy]_vars

\* part_003
NextPayBuy003 ==
  \/ \E c \in Requesters :
       \/ \E op \in PayOps, id \in NftIds : PayStart(c, op, id)
       \/ PaySelect003(c)
       \/ PayOffer003(c)
       \/ PaySubmit(c)
       \/ PayFailure(c)
  \/ \E i \in Handlers :
       \/ \E e \in PurchasesPay : Receive003(i, e)
       \/ FetchTx003(i)
       \/ LockNft(i)
       \/ Rollback(i)
       \/ InsertOrder(i)
       \/ Decrement003(i)
       \/ MarkUsed003(i)
       \/ Commit003(i)
       \/ Failure003(i)
       \/ Catch003(i)
       \/ CatchFailure003(i)

SpecPayBuy003 == InitPay003 /\ [][NextPayBuy003]_vars

(***************************************************************************)
(* The purchase path of the webhook on its own                             *)
(***************************************************************************)
\* server.js, delivered purchase confirmations only
NextBuy ==
  \E i \in Handlers :
    \/ \E e \in {x \in EventsServer : IsPurchase(x)} : Receive(i, e)
    \/ MarkUsed(i)
    \/ LockNft(i)
    \/ Rollback(i)
    \/ InsertOrder(i)
    \/ Decrement(i)
    \/ Commit(i)
    \/ StoreFailure(i)
    \/ Catch(i)
    \/ CatchFailure(i)

\* the listings purchases compete for: the tracked offer of listing 1 is
\* open, the secondary price of listing 2 is a number or no number
InitBuy ==
  /\ InitStore
  /\ marketplace_sell_offers = <<OfferX1>>
  /\ marketplace_nfts[2].price_rlusd \in {<<"2", "0">>, <<"a", "b", "c">>}

SpecBuy == InitBuy /\ [][NextBuy]_vars

\* server.js, the confirmations that write marketplace_sell_offers: offer
\* confirmations and purchases that echo an offer index
OfferEvents ==
  {x \in EventsServer :
     /\ x.signed /\ x.dispatched
     /\ \/ x.TransactionType = "NFTokenCreateOffer"
        \/ IsPurchase(x) /\ x.sell_offer_index # NULL}

NextUsed ==
  \E i \in Handlers :
    \/ \E e \in OfferEvents : Receive(i, e)
    \/ SaveSellOffer(i)
    \/ MarkUsed(i)
    \/ LockNft(i)
    \/ Rollback(i)
    \/ InsertOrder(i)
    \/ Decrement(i)
    \/ Commit(i)
    \/ StoreFailure(i)
    \/ Catch(i)
    \/ CatchFailure(i)

SpecUsed == InitBuy /\ [][NextUsed]_vars

\* part_003, delivered purchase confirmations only
NextBuy003 ==
  \E i \in Handlers :
    \/ \E e \in {x \in EventsPart003 : IsPurchase(x)} : Receive003(i, e)
    \/ FetchTx003(i)
    \/ LockNft(i)
    \/ Rollback(i)
    \/ InsertOrder(i)
    \/ Decrement003(i)
    \/ MarkUsed003(i)
    \/ Commit003(i)
    \/ Failure003(i)
    \/ Catch003(i)
    \/ CatchFailure003(i)

SpecBuy003 == InitBuy /\ [][NextBuy003]_vars

(***************************************************************************)
(* The webhook of server.js under a fair scheduler                         *)
(***************************************************************************)
\* the next statement of invocation i completes: the event loop resumes a
\* handler whose awaited statement has a connection (and, for the row
\* lock, whose row is free), the ROLLBACK of the catch block included; no
\* store failure is ever required
HandlerStep(i) ==
  \/ SaveSellOffer(i)
  \/ MarkUsed(i)
  \/ LockNft(i)
  \/ Rollback(i)
  \/ InsertOrder(i)
  \/ Decrement(i)
  \/ Commit(i)
  \/ Catch(i)

FairHandlers == \A i \in Handlers : WF_vars(HandlerStep(i))

SpecLive == Init /\ [][NextTyped]_vars /\ FairHandlers

\* the purchase path alone under the same scheduler
SpecBuyLive == InitBuy /\ [][NextBuy]_vars /\ FairHandlers

\* part_003
HandlerStep003(i) ==
  \/ FetchTx003(i)
  \/ SaveSellOffer003(i)
  \/ LockNft(i)
  \/ Rollback(i)
  \/ InsertOrder(i)
  \/ Decrement003(i)
  \/ MarkUsed003(i)
  \/ Commit003(i)
  \/ Catch003(i)

SpecLive003 ==
  Init /\ [][NextTyped003]_vars /\ \A i \in Handlers : WF_vars(HandlerStep003(i))

(***************************************************************************)
(* C1  Exactly-once settlement                                             *)
(***************************************************************************)
\* C1: when the only deliveries are N >= 1 purchase confirmations with one
\* transaction id for one listing that had quantity >= 1 and a valid price,
\* and all have been answered, there is exactly one Order row with that
\* transaction id, quantity is down by exactly 1 and sold_count up by 1.
C1_ExactlyOnceSettlement ==
  \A id \in NftIds, tx \in TxIds :
    ( /\ Quiescent /\ Started # {} /\ faults = 0
      /\ qty0[id] >= 1
      /\ \A i \in Started :
           /\ IsPurchase(h[i].p) /\ HasValidPrice(h[i].p)
           /\ h[i].p.nft_id = id /\ h[i].p.txid = tx )
    => /\ Cardinality(OrdersWithTx(tx)) = 1
       /\ marketplace_nfts[id].quantity = qty0[id] - 1
       /\ marketplace_nfts[id].sold_count = 1

(***************************************************************************)
(* C2  No oversell                                                         *)
(***************************************************************************)
\* the deliveries of valid purchase confirmations for listing id: purchase
\* confirmations of a payment in a currency the listing has a price in
PurchasesFor(id) ==
  {i \in Started : /\ IsPurchase(h[i].p) /\ HasValidPrice(h[i].p)
                   /\ h[i].p.nft_id = id}

\* those of them the handler of server.js can settle
ValidFor(id) == {i \in PurchasesFor(id) : IsValid(h[i].p)}

\* the transaction id of delivery i is carried by no other delivery
OwnTxid(i) == \A j \in Started : j # i => h[j].p.txid # h[i].p.txid

\* C2: a listing never has more orders than the units it was created with,
\* whatever was delivered; and when more valid purchase confirmations with
\* pairwise distinct transaction ids were delivered for a listing than it
\* had units (Q + K, K > 0), once all are answered the listing has exactly
\* Q orders and quantity 0, and every one of them was answered 200.
C2_NoOversell ==
  \A id \in NftIds :
    /\ Cardinality(OrdersOf(id)) <= qty0[id]
    /\ ( /\ Quiescent /\ faults = 0
         /\ Cardinality(PurchasesFor(id)) > qty0[id]
         /\ \A i \in PurchasesFor(id) : OwnTxid(i) )
       => /\ Cardinality(OrdersOf(id)) = qty0[id]
          /\ marketplace_nfts[id].quantity = 0
          /\ \A i \in PurchasesFor(id) : h[i].res = 200

\* the same of the confirmations the handler can settle, those whose blob
\* echoes the currency of the payment: the lock and the sold-out guard
\* let exactly Q of them through
NoOversellEchoed ==
  \A id \in NftIds :
    ( /\ Quiescent /\ faults = 0
      /\ PurchasesFor(id) = ValidFor(id)
      /\ Cardinality(ValidFor(id)) > qty0[id]
      /\ \A i \in ValidFor(id) : OwnTxid(i) )
    => /\ Cardinality(OrdersOf(id)) = qty0[id]
       /\ marketplace_nfts[id].quantity = 0
       /\ \A i \in ValidFor(id) : h[i].res = 200

\* two confirmations that echo the currency competed for the last unit:
\* one was recorded, the other discarded by the sold-out guard after BEGIN
LastUnitRace ==
  \E id \in NftIds, i, j \in Handlers :
    /\ Quiescent /\ faults = 0
    /\ qty0[id] = 1
    /\ {i, j} \subseteq ValidFor(id) /\ i # j
    /\ PurchasesFor(id) = ValidFor(id)
    /\ OwnTxid(i) /\ OwnTxid(j)
    /\ h[i].outcome = "recorded"
    /\ h[j].outcome = "sold_out" /\ h[j].res = 200
    /\ Cardinality(OrdersOf(id)) = 1
    /\ marketplace_nfts[id].quantity = 0

(***************************************************************************)
(* C3  Atomicity of settlement                                             *)
(***************************************************************************)
\* an offer row with index x is USED although no committed purchase
\* referenced x
UsedWithoutOrder(x) ==
  /\ \E k \in 1..Len(marketplace_sell_offers) :
       /\ marketplace_sell_offers[k].sell_offer_index = x
       /\ marketplace_sell_offers[k].status = "USED"
  /\ ~\E j \in Handlers :
        h[j].outcome = "recorded" /\ h[j].p.sell_offer_index = x

\* C3: in every committed state each listing has as many Order rows as its
\* sold_count and quantity + sold_count is what it was created with; and a
\* confirmation whose transaction failed between the order insert and the
\* quantity decrement leaves no order, no decrement and no offer-status
\* change of its own committed (an order with its transaction id is the
\* one a later delivery recorded).
C3_Atomicity ==
  /\ \A id \in NftIds :
       /\ Cardinality(OrdersOf(id)) = marketplace_nfts[id].sold_count
       /\ marketplace_nfts[id].quantity + marketplace_nfts[id].sold_count
            = qty0[id]
  /\ \A i \in Handlers :
       (h[i].pc = "done" /\ h[i].err = "failed_decrement")
       => /\ \A k \in OrdersWithTx(h[i].p.txid) :
               \E j \in Handlers \ {i} :
                 h[j].outcome = "recorded" /\ h[j].inserted = orders[k]
          /\ h[i].used = NULL
          /\ ~UsedWithoutOrder(h[i].p.sell_offer_index)

(***************************************************************************)
(* C4  Order insert before decrement                                       *)
(***************************************************************************)
\* C4: whenever a step lowers a listing's committed quantity, the same step
\* commits a new Order row for that listing (the row was inserted earlier in
\* the transaction that decrements).
C4_OrderBeforeDecrement ==
  [][ \A id \in NftIds :
        marketplace_nfts'[id].quantity < marketplace_nfts[id].quantity
        => /\ Len(orders') = Len(orders) + 1
           /\ orders'[Len(orders')].marketplace_nft_id = id ]_vars

(***************************************************************************)
(* C5  Quantity never negative                                             *)
(***************************************************************************)
\* C5: no listing's committed quantity is negative, and an invocation is at
\* (or past) its decrement statement only while the row it locked has
\* quantity > 0, so the decrement never acts on an exhausted listing.
C5_QuantityNonNegative ==
  /\ \A id \in NftIds : marketplace_nfts[id].quantity >= 0
  /\ \A i \in Handlers :
       h[i].pc \in {"insert", "decrement", "commit"}
       => /\ rowLock[h[i].p.nft_id] = i
          /\ marketplace_nfts[h[i].p.nft_id].quantity > 0

\* the last unit was sold while a second confirmation for the same listing
\* was waiting for the row lock, and the second one was then discarded
C5_Witness ==
  \E id \in NftIds, i, j \in Handlers :
    /\ i # j
    /\ qty0[id] >= 1
    /\ marketplace_nfts[id].quantity = 0
    /\ h[i].outcome = "recorded" /\ h[i].p.nft_id = id
    /\ h[j].outcome = "sold_out" /\ h[j].p.nft_id = id

(***************************************************************************)
(* C6  Idempotency on either key                                           *)
(***************************************************************************)
SharesKey(e, f) ==
  \/ e.payload_uuidv4 # NULL /\ e.payload_uuidv4 = f.payload_uuidv4
  \/ e.txid # NULL /\ e.txid = f.txid

\* C6: two purchase confirmations that share the payload uuid or the
\* transaction id are never both recorded (at most one Order row and one
\* decrement between them).
C6_EitherKeyIdempotent ==
  \A i, j \in Handlers :
    ( /\ i # j
      /\ IsPurchase(h[i].p) /\ IsPurchase(h[j].p)
      /\ SharesKey(h[i].p, h[j].p) )
    => ~(h[i].outcome = "recorded" /\ h[j].outcome = "recorded")

(***************************************************************************)
(* C7  Every order carries a reference                                     *)
(***************************************************************************)
\* C7: every Order row has a payload uuid or a transaction hash, and a
\* confirmation that carries neither is never recorded.
C7_OrderHasReference ==
  /\ \A k \in 1..Len(orders) :
       orders[k].xumm_payload_uuid # NULL \/ orders[k].tx_hash # NULL
  /\ \A i \in Handlers :
       h[i].p.txid = NULL /\ h[i].p.payload_uuidv4 = NULL
       => h[i].inserted = NoRow /\ ~h[i].decremented

(***************************************************************************)
(* C8  Filter                                                              *)
(***************************************************************************)
\* neither blob.nft_id nor blob.marketplace_nft_id is present
NoListingId(e) == e.nft_id = NoId /\ e.marketplace_nft_id = NoId

\* C8: an invocation whose confirmation was not dispatched successfully, is
\* not signed, or names no listing never begins a transaction and writes no
\* order, no decrement, no offer row and no offer status.
C8_FilterDiscards ==
  \A i \in Started :
    (~h[i].p.dispatched \/ ~h[i].p.signed \/ NoListingId(h[i].p))
    => /\ ~h[i].began
       /\ h[i].inserted = NoRow /\ ~h[i].decremented
       /\ h[i].used = NULL /\ ~h[i].saved
       /\ h[i].pc \notin {"offer", "mark_used", "lock", "insert",
                          "decrement", "commit", "catch"} \cup RollbackPcs

(***************************************************************************)
(* C9  Sold-out guard                                                      *)
(***************************************************************************)
\* C9: a purchase confirmation that met a sold-out or unknown listing was
\* answered 200 and left nothing behind: no order, no decrement and no
\* offer whose status it changed.
C9_SoldOutDiscarded ==
  \A i \in Handlers :
    h[i].outcome \in {"sold_out", "not_found"}
    => /\ h[i].res = 200
       /\ h[i].inserted = NoRow /\ ~h[i].decremented
       /\ OrdersWithTx(h[i].p.txid) = {}
       /\ h[i].used = NULL

(***************************************************************************)
(* C10  Price guard                                                        *)
(***************************************************************************)
\* C10: every Order row has a positive price, and a purchase confirmation
\* that reached a listing in stock whose price for the classified currency
\* is missing or non-positive was answered 200.
C10_PriceGuard ==
  /\ \A k \in 1..Len(orders) : IsPositive(orders[k].price)
  /\ \A i \in Done :
       ( /\ IsPurchase(h[i].p) /\ ~HasValidPrice(h[i].p)
         /\ h[i].outcome \notin {"sold_out", "not_found"}
         /\ faults = 0 )
       => h[i].res = 200 /\ h[i].outcome # "recorded"

(***************************************************************************)
(* C11  Currency isolation                                                 *)
(***************************************************************************)
Currencies == {"XRP", "RLUSD"}

\* C11: every Order row has currency XRP or RLUSD, and its price is the
\* listing's price_rlusd when its currency is RLUSD and the listing's
\* price_xrp when its currency is XRP.
C11_CurrencyIsolation ==
  \A k \in 1..Len(orders) :
    LET o == orders[k]
        nft == marketplace_nfts[o.marketplace_nft_id]
    IN /\ o.currency \in Currencies
       /\ o.currency = "RLUSD" => o.price = NumericIn(nft.price_rlusd)
       /\ o.currency = "XRP" => o.price = NumericIn(nft.price_xrp)

(***************************************************************************)
(* C12  Currency classification                                            *)
(***************************************************************************)
\* C12: the currency of the order row an invocation recorded is the one the
\* shape of the delivered amount shows (issued amount: RLUSD, drops: XRP),
\* whatever currency the blob echoes.
C12_CurrencyClassification ==
  \A i \in Handlers :
    h[i].outcome = "recorded"
    => h[i].inserted.currency = Classified(h[i].p)

(***************************************************************************)
(* C13  No business outcome is surfaced                                    *)
(***************************************************************************)
\* a statement sent to the store, or the request to the ledger, failed
\* during the invocation: the one that took it to catch, or the ROLLBACK
\* of the catch block
DependencyFailed(i) ==
  \/ h[i].err \in
       {"failed_" \o pc : pc \in {"offer", "mark_used", "lock", "insert",
                                   "decrement", "commit", "fetch", "mint"}
                                  \cup RollbackPcs}
  \/ h[i].outcome = "unanswered"

\* C13: every answered invocation was answered 200 unless a dependency of
\* the handler failed.
C13_NoBusinessError ==
  \A i \in Done : h[i].res \notin {0, 200} => DependencyFailed(i)

(***************************************************************************)
(* C14  USED only by a committed purchase                                  *)
(***************************************************************************)
\* C14: an offer row with status USED was referenced by a recorded purchase,
\* and an invocation that did not record a purchase changed no offer status.
C14_UsedOnlyByPurchase ==
  /\ \A k \in 1..Len(marketplace_sell_offers) :
       marketplace_sell_offers[k].status = "USED"
       => \E j \in Handlers :
            /\ h[j].outcome = "recorded"
            /\ h[j].p.sell_offer_index =
                 marketplace_sell_offers[k].sell_offer_index
  /\ \A i \in Done : h[i].outcome # "recorded" => h[i].used = NULL

(***************************************************************************)
(* C15  Offer status is monotone                                           *)
(***************************************************************************)
\* C15: a step never removes an offer row and never takes a row whose
\* status is USED to another status.
C15_UsedIsMonotone ==
  [][ \A k \in 1..Len(marketplace_sell_offers) :
        /\ k <= Len(marketplace_sell_offers')
        /\ marketplace_sell_offers[k].status = "USED"
           => marketplace_sell_offers'[k].status = "USED" ]_vars

\* an offer was marked USED by the first delivery and the second delivery,
\* an offer confirmation for the same offer index, has been answered
C15_Witness ==
  \E k \in 1..Len(marketplace_sell_offers) :
    /\ marketplace_sell_offers[k].status = "USED"
    /\ h[1].used = marketplace_sell_offers[k].sell_offer_index
    /\ h[2].pc = "done"
    /\ h[2].p.TransactionType = "NFTokenCreateOffer"
    /\ h[2].p.offerIndex = marketplace_sell_offers[k].sell_offer_index

(***************************************************************************)
(* C16  Offer confirmation is idempotent                                   *)
(***************************************************************************)
\* C16: no two offer rows share the offer index or the (listing, asset,
\* currency) triple, and an offer confirmation is answered 200 unless the
\* store failed.
C16_OfferIdempotent ==
  /\ \A k, l \in 1..Len(marketplace_sell_offers) :
       k # l =>
         LET a == marketplace_sell_offers[k]
             b == marketplace_sell_offers[l]
         IN /\ a.sell_offer_index # b.sell_offer_index
            /\ ~(/\ a.marketplace_nft_id = b.marketplace_nft_id
                 /\ a.nftoken_id = b.nftoken_id
                 /\ a.currency = b.currency)
  /\ \A i \in Done :
       h[i].p.TransactionType = "NFTokenCreateOffer" /\ ~DependencyFailed(i)
       => h[i].res = 200

(***************************************************************************)
(* Vocabulary of the offer-creating routes                                 *)
(***************************************************************************)
CallsDone == {c \in Callers : calls[c].pc = "done"}

\* the request ended in catch because the store, the ledger connection or
\* the gateway failed
CallFaulted(c) ==
  calls[c].outcome \in
    {"failed_" \o pc : pc \in {"select", "connect", "persist", "submit"}}

\* a payload of request c reached the signing gateway
Submitted(c) == \E k \in 1..Len(gateway) : gateway[k].caller = c

\* the listing named by the request does not exist (for list-on-marketplace
\* a listing is its marketplace_nfts row joined with its submission)
ListingMissing(c) ==
  \/ calls[c].id \notin DOMAIN marketplace_nfts
  \/ /\ calls[c].op = "list"
     /\ ~marketplace_nfts[calls[c].id].has_submission

\* neither the listing nor its submission carries an NFTokenID
AssetMissing(nft) == Missing(nft.nftoken_id) /\ nft.nftoken_ids = <<>>

\* the request names an existing listing with a well-formed NFTokenID and
\* a currency
WellFormed(c) ==
  /\ calls[c].id # NoId /\ calls[c].currency # NULL
  /\ ~ListingMissing(c)
  /\ LET nft == marketplace_nfts[calls[c].id] IN
     /\ ~Missing(nft.nftoken_id) /\ Len(nft.nftoken_id) = TokenLength
     /\ nft.nftoken_ids # <<>>

\* the listing's price for the requested currency is a positive number
PriceValid(c) ==
  IsPositive(NumericIn(PriceText(marketplace_nfts[calls[c].id],
                                 calls[c].currency)))

\* the amount of a submitted offer is a positive number: an issued amount
\* whose value is one, or a text of drops that is digits only and not 0
PositiveAmount(a) ==
  IF a.issued THEN IsPositive(NumericIn(a.value))
  ELSE AllDigits(a.drops) /\ Significant(a.drops) # <<>>

(***************************************************************************)
(* C17  createOffer: listing or asset identifier missing                   *)
(***************************************************************************)
\* a finished list-on-marketplace request that named a listing and a
\* currency and met no dependency failure
ListAnswered(c) ==
  /\ c \in CallsDone
  /\ calls[c].op = "list" /\ ~CallFaulted(c)
  /\ calls[c].id # NoId /\ calls[c].currency # NULL

\* what the route answers: 404 'Marketplace NFT not found' when the listing
\* does not exist and 400 'NFTokenID missing for listing' when the listing
\* exists and has no asset identifier; in both cases nothing was submitted
\* to the gateway and nothing was written
ListingOrAssetMissing ==
  \A c \in Callers :
    ListAnswered(c)
    => /\ ListingMissing(c)
          => /\ calls[c].res = 404 /\ calls[c].outcome = "not_found"
             /\ ~Submitted(c) /\ ~calls[c].wrote
       /\ ( /\ ~ListingMissing(c)
            /\ AssetMissing(marketplace_nfts[calls[c].id]) )
          => /\ calls[c].res = 400 /\ calls[c].outcome = "no_token"
             /\ ~Submitted(c) /\ ~calls[c].wrote

\* C17: such a request is answered with the not-found error (404) when
\* the listing does not exist or has no asset identifier, and then nothing
\* was submitted to the gateway and nothing was written.
C17_NotFound ==
  \A c \in Callers :
    ( /\ ListAnswered(c)
      /\ \/ ListingMissing(c)
         \/ AssetMissing(marketplace_nfts[calls[c].id]) )
    => /\ calls[c].res = 404 /\ calls[c].outcome = "not_found"
       /\ ~Submitted(c) /\ ~calls[c].wrote

\* one request named an unknown listing, another a listing without an
\* asset identifier, and both were answered
C17_Witness ==
  \E c, d \in CallsDone :
    /\ calls[c].op = "list" /\ calls[c].id = GhostId
    /\ calls[c].res = 404
    /\ calls[d].op = "list" /\ calls[d].id \in DOMAIN marketplace_nfts
    /\ ~ListingMissing(d)
    /\ AssetMissing(marketplace_nfts[calls[d].id])
    /\ calls[d].res = 400
    /\ gateway = <<>>

(***************************************************************************)
(* C18  createOffer: invalid price                                         *)
(***************************************************************************)
\* C18: a request of either route that passed the parameter, listing and
\* asset checks for a listing whose price in the requested currency is
\* absent or non-positive ended with the invalid-price error, and no
\* submitted offer has a zero, negative or missing amount.
C18_InvalidPrice ==
  /\ \A c \in CallsDone :
       ( /\ ~CallFaulted(c)
         /\ calls[c].outcome \notin {"missing_params", "not_found",
                                     "no_token"}
         /\ ~PriceValid(c) )
       => calls[c].outcome = "invalid_price" /\ ~Submitted(c)
  /\ \A k \in 1..Len(gateway) : PositiveAmount(gateway[k].Amount)

(***************************************************************************)
(* C19  createOffer returns the signing link                               *)
(***************************************************************************)
\* C19: a list-on-marketplace request for an existing listing with an
\* asset identifier and a valid price, whose dependencies all worked, was
\* answered 200 with the signing link.
C19_LinkReturned ==
  \A c \in CallsDone :
    ( /\ calls[c].op = "list" /\ ~CallFaulted(c)
      /\ WellFormed(c) /\ PriceValid(c) )
    => calls[c].res = 200 /\ calls[c].outcome = "link"

ReadsDone ==
  {c \in Requesters : reqs[c].op = "market/all" /\ reqs[c].pc = "done"}

\* request c completes in this step with a success answer
Completes(c) ==
  reqs[c].pc # "done" /\ reqs'[c].pc = "done" /\ reqs'[c].res = 200

(***************************************************************************)
(* C21  Cache freshness                                                    *)
(***************************************************************************)
\* every finished read and the snapshot agree with the history: a read
\* answered from the snapshot made no store query and returned exactly the
\* payload of the read that computed the snapshot, which began less than
\* the time to live before it; a read that computed returned the rows it
\* had just read; the snapshot is the payload of the read that stored it,
\* stamped with the time that read began
SnapshotHistory ==
  /\ \A c \in ReadsDone :
       /\ reqs[c].hit
          => /\ reqs[c].from \in ReadsDone
             /\ LET d == reqs[c].from IN
                /\ reqs[d].outcome = "computed"
                /\ reqs[c].payload = reqs[d].payload
                /\ reqs[c].now - reqs[d].now >= 0
                /\ reqs[c].now - reqs[d].now < MARKET_ALL_TTL_MS
             /\ reqs[c].outcome = "cached" /\ reqs[c].rows = <<>>
       /\ reqs[c].outcome = "computed"
          => ~reqs[c].hit /\ reqs[c].payload = reqs[c].rows
  /\ marketAllCache.has
     => /\ marketAllCache.by \in ReadsDone
        /\ marketAllCache.ts = reqs[marketAllCache.by].now
        /\ marketAllCache.data = reqs[marketAllCache.by].payload

\* read c arrives in this step
ReadArrives(c) == reqs[c].pc = "idle" /\ reqs'[c].op = "market/all"

\* read c arrives while the snapshot an earlier read stored is still held
\* and that read began less than the time to live ago
ArrivesWithinTtl(c) ==
  /\ ReadArrives(c)
  /\ marketAllCache.has
  /\ reqs'[c].now - reqs[marketAllCache.by].now < MARKET_ALL_TTL_MS

\* C21 as amended: a read that arrives while a snapshot stored by an
\* earlier read is held (not cleared since) and that read began less than
\* the time to live before is answered at once with that read's payload
\* and makes no store query; every other read queries the store and, when
\* the query succeeds, answers its rows and replaces the snapshot with
\* them, stamped with the time the read began, and when the query fails
\* answers an empty list and leaves the snapshot; so no read returns a
\* snapshot stamped 10 s or more before the read began.
C21_CacheFreshness ==
  [][ /\ SnapshotHistory'
      /\ \A c \in Requesters :
           /\ ArrivesWithinTtl(c)
              => /\ reqs'[c].pc = "done" /\ reqs'[c].res = 200
                 /\ reqs'[c].hit /\ reqs'[c].rows = <<>>
                 /\ reqs'[c].payload = reqs[marketAllCache.by].payload
                 /\ marketAllCache' = marketAllCache
           /\ ReadArrives(c) /\ ~ArrivesWithinTtl(c)
              => reqs'[c].pc = "query" /\ ~reqs'[c].hit
           /\ ( /\ reqs[c].op = "market/all" /\ reqs[c].pc = "query"
                /\ reqs'[c].pc = "store" )
              => reqs'[c].rows = SelectMarketAll(marketplace_nfts)
           /\ ( /\ reqs[c].op = "market/all" /\ reqs[c].pc = "store"
                /\ reqs'[c].pc = "done" )
              => /\ reqs'[c].payload = reqs[c].rows /\ reqs'[c].res = 200
                 /\ marketAllCache'.has
                 /\ marketAllCache'.ts = reqs[c].now
                 /\ marketAllCache'.data = reqs[c].rows
           /\ ( /\ reqs[c].op = "market/all" /\ reqs[c].pc = "query"
                /\ reqs'[c].pc = "done" )
              => /\ reqs'[c].payload = <<>> /\ reqs'[c].res = 200
                 /\ ~reqs'[c].hit
                 /\ marketAllCache' = marketAllCache ]_vars

\* no request other than the reads c and d was received
OnlyReads(c, d) ==
  /\ {c, d} \subseteq ReadsDone
  /\ \A e \in Requesters \ {c, d} : reqs[e].pc = "idle"

\* C21: when no mutation and no invalidation occurs between them (here:
\* no other request was received and the store did not fail), of two
\* reads that began less than the time to live apart the second returned
\* the payload of the first and made no store query; and no read returned
\* a snapshot stamped 10 s or more before it began.
C21_TwoReadsWithinTtl ==
  /\ \A c, d \in Requesters :
       ( /\ c < d /\ OnlyReads(c, d) /\ faults = 0
         /\ reqs[d].now - reqs[c].now < MARKET_ALL_TTL_MS )
       => /\ reqs[d].payload = reqs[c].payload
          /\ reqs[d].outcome = "cached" /\ reqs[d].rows = <<>>
  /\ \A c \in ReadsDone :
       reqs[c].hit
       => reqs[c].now - reqs[reqs[c].from].now < MARKET_ALL_TTL_MS

\* a read was answered from a snapshot computed earlier, with time elapsed
\* between the two reads
C21_Witness ==
  \E c \in ReadsDone :
    /\ reqs[c].hit
    /\ reqs[c].from \in ReadsDone
    /\ reqs[c].now > reqs[reqs[c].from].now
    /\ reqs[c].payload # <<>>

(***************************************************************************)
(* C22  Cache invalidation on mutation                                     *)
(***************************************************************************)
\* C22: whenever an add-nft or toggle-delist request completes with
\* success, the snapshot is empty.
C22_InvalidatedByMutation ==
  [][\A c \in Requesters :
       ( /\ reqs[c].op \in {"add-nft", "toggle-delist"}
         /\ Completes(c) )
       => ~marketAllCache'.has]_vars

(***************************************************************************)
(* C24  Public discovery                                                   *)
(***************************************************************************)
\* C24: no payload of a catalog read, computed or served from the
\* snapshot, holds a listing that was sold out or delisted when the
\* payload was computed.
C24_DiscoveryExcludes ==
  \A c \in ReadsDone :
    \A k \in 1..Len(reqs[c].payload) :
      /\ reqs[c].payload[k].quantity_remaining > 0
      /\ ~reqs[c].payload[k].sold_out
      /\ ~reqs[c].payload[k].is_delisted

(***************************************************************************)
(* C23  Cache invalidation on settlement                                   *)
(***************************************************************************)
\* C23: whenever the webhook commits a purchase, the snapshot is empty
\* afterwards, so that no later read is answered from a snapshot taken
\* before the purchase.
C23_InvalidatedBySettlement ==
  [][\A i \in Handlers :
       (h[i].pc = "commit" /\ h'[i].outcome = "recorded")
       => ~marketAllCache'.has]_vars

(***************************************************************************)
(* C25  Redemption                                                         *)
(***************************************************************************)
\* C25: a step changes an order only when a redeem request names that order
\* with the order's buyer wallet while its status is PAID, and then sets
\* status REDEEM_REQUESTED and the buyer email and nothing else; no order is
\* added or removed; a redeem request is answered 200 when its statement
\* changed the order and 400 otherwise.
C25_RedeemOnlyPaid ==
  [][/\ Len(orders') = Len(orders)
     /\ \A k \in 1..Len(orders) :
          orders'[k] # orders[k]
          => \E c \in Requesters :
               /\ reqs[c].op = "redeem" /\ reqs[c].pc = "update"
               /\ reqs[c].id = k
               /\ orders[k].status = "PAID"
               /\ orders[k].buyer_wallet = reqs[c].wallet
               /\ orders'[k] =
                    [orders[k] EXCEPT !.status = "REDEEM_REQUESTED",
                                      !.buyer_email = reqs[c].email]
               /\ reqs'[c].rows = <<k>>
     /\ \A c \in Requesters :
          (reqs[c].op = "redeem" /\ reqs[c].pc = "update"
             /\ reqs'[c].pc = "respond")
          => (reqs'[c].rows # <<>> <=> orders' # orders)
     /\ \A c \in Requesters :
          (reqs[c].op = "redeem" /\ reqs[c].pc = "respond"
             /\ reqs'[c].pc = "done")
          => reqs'[c].res = IF reqs[c].rows = <<>> THEN 400 ELSE 200]_vars

\* an order was redeemed once, and a second redeem of it with another email
\* was refused and left the first email in place
C25_Witness ==
  \E c, d \in Requesters :
    /\ reqs[c].op = "redeem" /\ reqs[c].pc = "done" /\ reqs[c].res = 200
    /\ reqs[d].op = "redeem" /\ reqs[d].pc = "done" /\ reqs[d].res = 400
    /\ reqs[d].id = reqs[c].id /\ reqs[d].wallet = reqs[c].wallet
    /\ reqs[d].email # reqs[c].email
    /\ orders[reqs[c].id].status = "REDEEM_REQUESTED"
    /\ orders[reqs[c].id].buyer_email = reqs[c].email

(***************************************************************************)
(* C26  Quantity and orders are written by the reconciler only             *)
(***************************************************************************)
\* C26: no step of a request to pay-xrp, pay-rlusd, the listing routes,
\* toggle-delist, redeem or the catalog read changes the quantity or
\* sold_count of a listing or inserts an order.
C26_PayLeavesInventory ==
  [][reqs' # reqs
     => /\ DOMAIN orders' = DOMAIN orders
        /\ \A id \in DOMAIN marketplace_nfts :
             /\ id \in DOMAIN marketplace_nfts'
             /\ marketplace_nfts'[id].quantity = marketplace_nfts[id].quantity
             /\ marketplace_nfts'[id].sold_count
                  = marketplace_nfts[id].sold_count]_vars

(***************************************************************************)
(* C27  Initiate-purchase without a tracked offer                          *)
(***************************************************************************)
\* the store as the pay routes see it
storeTables == <<marketplace_nfts, orders, marketplace_sell_offers>>

\* pay request c read an offer index for its currency
PaySubmitted(c) == \E k \in 1..Len(gateway) : gateway[k].caller = c

\* C27: a pay-xrp or pay-rlusd request never changes the store; one that
\* names an unknown listing is answered 404, one whose listing has no offer
\* index for the route's currency is answered 400 "no sell offer set", and
\* neither submits a payload to the gateway.
C27_NoTrackedOffer ==
  [][\A c \in Requesters :
       (reqs'[c] # reqs[c] /\ reqs'[c].op \in PayOps)
       => /\ storeTables' = storeTables
          /\ ( /\ reqs[c].pc = "select" /\ reqs'[c].pc # "select"
               /\ reqs'[c].outcome # "failed_select" )
             => IF reqs[c].id \notin DOMAIN marketplace_nfts
                THEN /\ reqs'[c].pc = "done" /\ reqs'[c].res = 404
                     /\ ~PaySubmitted(c) /\ gateway' = gateway
                ELSE OfferColumn(marketplace_nfts[reqs[c].id], reqs[c].op)
                       = NULL
                     => /\ reqs'[c].pc = "done" /\ reqs'[c].res = 400
                        /\ reqs'[c].outcome = "no_offer"
                        /\ ~PaySubmitted(c) /\ gateway' = gateway
          /\ gateway' # gateway => reqs[c].rows # <<NULL>>]_vars

\* one request for a listing without an offer in its currency was answered
\* 400, one for an unknown listing 404, and nothing reached the gateway
C27_Witness ==
  \E c, d \in Requesters :
    /\ reqs[c].op \in PayOps /\ reqs[c].outcome = "no_offer"
    /\ reqs[c].res = 400
    /\ reqs[d].op \in PayOps /\ reqs[d].outcome = "not_found"
    /\ reqs[d].res = 404
    /\ gateway = <<>>

\* C27, for the pay-xrp route that reads its offer from
\* marketplace_sell_offers: a request whose listing has no open XRP offer
\* row is answered 400 and submits nothing; no request changes the store.
C27_NoOpenOffer003 ==
  [][\A c \in Requesters :
       (reqs'[c] # reqs[c] /\ reqs'[c].op \in PayOps)
       => /\ storeTables' = storeTables
          /\ ( /\ reqs[c].pc = "offer" /\ reqs'[c].pc # "offer"
               /\ reqs'[c].outcome # "failed_offer"
               /\ OpenXrpOffers(marketplace_sell_offers, reqs[c].id) = <<>> )
             => /\ reqs'[c].pc = "done" /\ reqs'[c].res = 400
                /\ reqs'[c].outcome = "no_offer"
                /\ ~PaySubmitted(c) /\ gateway' = gateway]_vars

(***************************************************************************)
(* C28  Per-listing serialization                                          *)
(***************************************************************************)
\* invocation i is between its SELECT ... FOR UPDATE and its COMMIT or
\* ROLLBACK
Locked(i) ==
  \/ h[i].pc \in {"rollback", "rollback_dup", "insert", "decrement", "commit"}
  \/ /\ h[i].pc = "catch" /\ h[i].began
     /\ h[i].err \notin {"failed_lock", "failed_rollback_missing"}

\* the invocation is past the sold-out guard
Selling(i) ==
  \/ h[i].pc \in {"rollback_dup", "insert", "decrement", "commit"}
  \/ /\ h[i].pc = "catch" /\ h[i].began
     /\ h[i].err \notin {"failed_lock", "failed_rollback_missing",
                         "failed_rollback"}

\* C28: at most one invocation is inside the locked section of a listing;
\* the lock of a listing is held exactly by the invocation inside its
\* section; while an invocation is inside, no other invocation holds an
\* uncommitted write for the listing and the stock it checked is still
\* there.
C28_PerListingSerialization ==
  /\ \A i, j \in Handlers :
       (i # j /\ Locked(i) /\ Locked(j)) => h[i].p.nft_id # h[j].p.nft_id
  /\ \A i \in Handlers :
       Locked(i)
       => /\ h[i].p.nft_id \in NftIds
          /\ rowLock[h[i].p.nft_id] = i
          /\ (Selling(i) <=> marketplace_nfts[h[i].p.nft_id].quantity > 0)
          /\ \A j \in Handlers \ {i} :
               (h[j].pc # "done" /\ h[j].p.nft_id = h[i].p.nft_id)
               => h[j].inserted = NoRow /\ ~h[j].decremented
  /\ \A id \in NftIds :
       rowLock[id] # 0
       => Locked(rowLock[id]) /\ h[rowLock[id]].p.nft_id = id

\* two invocations are inside the locked sections of two different listings
\* at the same time
C28_Witness ==
  \E i, j \in Handlers :
    /\ i # j /\ Locked(i) /\ Locked(j)
    /\ h[i].p.nft_id # h[j].p.nft_id
    /\ h[i].inserted # NoRow /\ h[j].inserted # NoRow

(***************************************************************************)
(* C29  No outbound call under the row lock                                *)
(***************************************************************************)
\* C29: an invocation whose request to the ledger is in flight has not
\* issued BEGIN and holds no listing lock.
C29_NoCallUnderLock ==
  \A i \in Handlers :
    h[i].pc = "fetch"
    => /\ ~h[i].began
       /\ \A id \in NftIds : rowLock[id] # i

\* one invocation is inside its locked section, after its own ledger
\* request, while the ledger request of another is in flight
C29_Witness ==
  \E i, j \in Handlers :
    /\ Locked(i) /\ rowLock[h[i].p.nft_id] = i
    /\ h[j].pc = "fetch"

(***************************************************************************)
(* C30  Clean failure and safe retry                                       *)
(***************************************************************************)
\* C30: an invocation that ended because a store statement failed was
\* answered 500 and left no order, no decrement and no offer change behind;
\* and when the same purchase confirmation was delivered again and
\* recorded, exactly one order carries its transaction.
C30_CleanFailure ==
  /\ \A i \in Done :
       DependencyFailed(i)
       => /\ h[i].res = 500
          /\ h[i].inserted = NoRow /\ ~h[i].decremented
          /\ h[i].used = NULL /\ ~h[i].saved
  /\ \A i, j \in Done :
       ( /\ i < j /\ DependencyFailed(i) /\ h[j].p = h[i].p
         /\ h[j].outcome = "recorded" )
       => Cardinality(OrdersWithTx(h[j].p.txid)) = 1

\* the part of C30 about writes: an invocation that ended because a store
\* statement failed left no order, no decrement and no offer change behind
C30_NoPartialWrite ==
  \A i \in Done :
    DependencyFailed(i)
    => /\ h[i].inserted = NoRow /\ ~h[i].decremented
       /\ h[i].used = NULL /\ ~h[i].saved

\* an invocation ended without an answer: the ROLLBACK of its catch block
\* was rejected
C30_Unanswered ==
  \E i \in Done : h[i].res = 0 /\ h[i].outcome = "unanswered"

(***************************************************************************)
(* C31  Typed event classification                                         *)
(***************************************************************************)
\* C31: an invocation that received the confirmation of an offer creation
\* writes no order and no decrement, and one that received the confirmation
\* of a purchase writes no sell-offer row, whatever metadata the
\* confirmation echoes.
C31_TypedClassification ==
  \A i \in Handlers :
    /\ h[i].p.TransactionType = "NFTokenCreateOffer"
       => h[i].inserted = NoRow /\ ~h[i].decremented
    /\ h[i].p.TransactionType = "NFTokenAcceptOffer"
       => ~h[i].saved

(***************************************************************************)
(* C32  Conservation of inventory                                          *)
(***************************************************************************)
\* C32: in every committed state every order references a listing, the
\* orders of a listing are as many as its sold_count, and quantity plus
\* sold_count is the quantity the listing was created with.
C32_Conservation ==
  /\ \A k \in 1..Len(orders) : orders[k].marketplace_nft_id \in NftIds
  /\ \A id \in NftIds :
       /\ marketplace_nfts[id].sold_count = Cardinality(OrdersOf(id))
       /\ qty0[id] =
            marketplace_nfts[id].quantity + marketplace_nfts[id].sold_count

\* one sale of a listing is committed while a second one, order inserted
\* and unit taken, is not committed yet
C32_Witness ==
  \E id \in NftIds, i \in Handlers :
    /\ marketplace_nfts[id].sold_count = 1
    /\ Cardinality(OrdersOf(id)) = 1
    /\ marketplace_nfts[id].quantity = qty0[id] - 1
    /\ h[i].pc = "commit"
    /\ h[i].p.nft_id = id
    /\ h[i].inserted # NoRow
    /\ h[i].decremented

(***************************************************************************)
(* C33  Connection and transaction hygiene                                 *)
(***************************************************************************)
\* the invocation holds its checked-out connection
HoldsConnection(i) == h[i].pc \notin {"idle", "done"}

\* the invocation has issued BEGIN and neither COMMIT nor ROLLBACK yet
InTransaction(i) == h[i].began /\ HoldsConnection(i)

\* C33: never more connections are checked out than the pool has; a row
\* lock is held only by an invocation inside its transaction; an invocation
\* that has finished, on whatever path, holds no row lock and leaves no
\* uncommitted write behind: what it wrote is committed or gone.
C33_Hygiene ==
  /\ InUse <= PoolSize
  /\ \A id \in NftIds :
       rowLock[id] # 0 => InTransaction(rowLock[id])
  /\ \A i \in Handlers :
       /\ h[i].pc = "idle" => ~h[i].began
       /\ h[i].pc = "done" =>
            /\ \A id \in NftIds : rowLock[id] # i
            /\ (h[i].inserted # NoRow \/ h[i].decremented)
                 => /\ h[i].outcome = "recorded"
                    /\ h[i].began
                    /\ \E k \in 1..Len(orders) : orders[k] = h[i].inserted

\* an invocation failed after its order insert, inside the transaction, and
\* another invocation holds the lock of the same listing afterwards
C33_Witness ==
  \E i, j \in Handlers :
    /\ h[i].pc = "done" /\ h[i].outcome = "failed_decrement"
    /\ h[i].began /\ h[i].res = 500
    /\ h[j].pc = "insert"
    /\ h[j].p.nft_id = h[i].p.nft_id
    /\ rowLock[h[j].p.nft_id] = j

(***************************************************************************)
(* C34  Progress under a bounded connection pool                           *)
(***************************************************************************)
\* C34: every invocation that holds a connection eventually answers and
\* releases it, as long as every statement that has a connection completes.
C34_Progress ==
  \A i \in Handlers : (h[i].pc # "idle") ~> (h[i].pc = "done")

\* as many offer-creation confirmations as the pool has connections, each
\* holding its connection and waiting for a second one
C34_PoolExhausted ==
  /\ InUse = PoolSize
  /\ \A i \in Handlers : HoldsConnection(i) => h[i].pc = "offer"

(***************************************************************************)
(* C35  No stale snapshot survives an invalidation                         *)
(***************************************************************************)
\* a toggle-delist has updated the store and not yet cleared the snapshot
Invalidating == \E c \in Requesters : reqs[c].pc = "clear"

\* C35: once every mutation that updated the store has also cleared the
\* snapshot, a snapshot that reads are served from holds what the store
\* holds: no read in flight has put back a payload computed before the
\* mutation.
C35_NoStaleSnapshot ==
  (Fresh(marketAllCache, clock) /\ ~Invalidating)
    => marketAllCache.data = SelectMarketAll(marketplace_nfts)

\* the interleaving in question: a toggle-delist has completed and a read
\* that ran its query before is about to store its rows
C35_ReadInFlight ==
  \E c, d \in Requesters :
    /\ reqs[c].op = "market/all" /\ reqs[c].pc = "store"
    /\ reqs[d].op = "toggle-delist" /\ reqs[d].outcome = "ok"
    /\ ~marketAllCache.has
    /\ reqs[c].rows # SelectMarketAll(marketplace_nfts)

(***************************************************************************)
(* C36  Out-of-order delivery                                              *)
(***************************************************************************)
\* offer index x is tracked with status OPEN
OpenOffer(x) ==
  \E k \in 1..Len(marketplace_sell_offers) :
    /\ marketplace_sell_offers[k].sell_offer_index = x
    /\ marketplace_sell_offers[k].status = "OPEN"

\* C36: once a purchase that referenced an offer index is committed, no
\* tracked offer with that index is OPEN, whichever of the two
\* confirmations was processed first.
C36_ConsumedStaysClosed ==
  \A i \in Handlers :
    (h[i].outcome = "recorded" /\ h[i].p.sell_offer_index # NULL)
      => ~OpenOffer(h[i].p.sell_offer_index)

\* the purchase was committed while its offer was not tracked yet, and the
\* confirmation of the offer's creation was processed afterwards
C36_LateOfferConfirmation ==
  \E i, j \in Handlers :
    /\ h[i].outcome = "recorded" /\ h[i].used = NULL
    /\ h[j].saved
    /\ h[j].p.offerIndex = h[i].p.sell_offer_index

(***************************************************************************)
(* C37  An offer is marked USED only by a confirmation for its listing     *)
(***************************************************************************)
\* C37: when an invocation changed the status of the offer rows with the
\* index its confirmation carries, each of those rows belongs to the
\* listing the confirmation names.
C37_OwnListingOnly ==
  \A i \in Handlers :
    h[i].used # NULL =>
      \A k \in 1..Len(marketplace_sell_offers) :
        marketplace_sell_offers[k].sell_offer_index = h[i].used
          => marketplace_sell_offers[k].marketplace_nft_id = h[i].p.nft_id

\* a confirmation naming another listing has closed the offer of listing 1
C37_ForeignOfferUsed ==
  \E i \in Handlers, k \in 1..Len(marketplace_sell_offers) :
    /\ h[i].used = marketplace_sell_offers[k].sell_offer_index
    /\ marketplace_sell_offers[k].status = "USED"
    /\ marketplace_sell_offers[k].marketplace_nft_id # h[i].p.nft_id

(***************************************************************************)
(* C38  Offer slots are per currency                                       *)
(***************************************************************************)
\* the slot of a listing row for a currency
SlotOf(nft, cur) ==
  IF cur = "RLUSD" THEN nft.sell_offer_index_rlusd
  ELSE nft.sell_offer_index_xrp

C38_ListedForRlusd ==
  \E c \in CallsDone :
    /\ calls[c].op = "list" /\ calls[c].currency = "RLUSD"
    /\ ~CallFaulted(c) /\ WellFormed(c)

(***************************************************************************)
(* C39  Initiate-purchase hands out no consumed offer                      *)
(***************************************************************************)
\* a committed purchase referenced offer index x
Consumed(x) ==
  \E i \in Handlers :
    h[i].outcome = "recorded" /\ h[i].p.sell_offer_index = x

\* C39: a pay request whose reads of the store happen when its listing has
\* quantity 0, or when a purchase referencing the offer it found is
\* committed, does not go on to submit a signing payload for that offer.
C39_NoConsumedOffer ==
  [][ \A c \in Requesters :
        ( /\ reqs[c].op \in PayOps
          /\ reqs[c].pc # "submit" /\ reqs'[c].pc = "submit" )
        => /\ marketplace_nfts[reqs[c].id].quantity > 0
           /\ ~Consumed(reqs'[c].rows[1]) ]_vars

\* the signing link for an offer was returned for a listing that is sold
\* out
C39_SoldOutHandedOut ==
  \E c \in Requesters :
    /\ reqs[c].op \in PayOps /\ reqs[c].outcome = "link"
    /\ marketplace_nfts[reqs[c].id].quantity = 0
    /\ qty0[reqs[c].id] = 0
====
